---- MODULE Spec2Model ----
(***************************************************************************)
(* Production deployment of a theme: capacity enforcement, backup of the   *)
(* published theme, retention cleanup, target resolution, selective push   *)
(* and version tagging, as implemented by productionDeploy and the backup, *)
(* shopify-cli and versioning utilities.                                   *)
(*                                                                         *)
(* The remote store is a set of theme records.  Every store-changing CLI   *)
(* call the code issues (create, delete, push, rename) is appended to      *)
(* `calls` with what the store held for its target at the moment of the    *)
(* call; the read-only commands issued are collected in `reads`.  The      *)
(* Slack and Teams notifications, which swallow their own failures, are    *)
(* left out.                                                               *)
(***************************************************************************)
EXTENDS Integers, Sequences, FiniteSets, TLC

\* ------------------------------------------------------------------ bounds
MaxSpecial == 2      \* prefix-named or published themes in the initial store
MaxRetention == 2    \* largest configured backup.retention
MaxPolls == 1        \* polls of waitForThemeProcessing explored
EdgeWidth == 1       \* version components explored next to 0 and next to 99
MaxBumps == 2        \* successive bumps of one tag
MaxRetries == 3      \* largest `retries` option handed to withRetry
MaxCost == 2         \* longest time one call of conditionFn takes, in seconds
MaxCycles == 5       \* consecutive deployments to one store

\* ------------------------------------------------------- program constants
maxThemes == 20
TicksPerMinute == 2
MissingId == 99

NoId == 0
NoTheme == [id |-> NoId]
NoUrl == ""
Webhooks == {NoUrl, "https://hooks.example/T000"}

\* ------------------------------------------------------------------ names
\* A theme name is a sequence of one-character strings.
prefix == <<"B", "A", "C", "K", "U", "P", "_">>
ProdName == <<"P", "R", "O", "D">>
OtherName == <<"D", "e", "v">>

Digit(n) == CASE n = 0 -> "0" [] n = 1 -> "1" [] n = 2 -> "2" [] n = 3 -> "3"
              [] n = 4 -> "4" [] n = 5 -> "5" [] n = 6 -> "6" [] n = 7 -> "7"
              [] n = 8 -> "8" [] OTHER -> "9"

\* String(n) for a natural number
RECURSIVE NumStr(_)
NumStr(n) == IF n < 10 THEN <<Digit(n)>> ELSE NumStr(n \div 10) \o <<Digit(n % 10)>>

\* String(n).padStart(2, '0')
PadStart2(n) == IF n < 10 THEN <<"0">> \o NumStr(n) ELSE NumStr(n)

\* name.startsWith(p)
StartsWith(name, p) == /\ Len(name) >= Len(p)
                       /\ SubSeq(name, 1, Len(p)) = p

\* format(zonedDate, 'dd-MM-yy-HH:mm'): the clock counts ticks, the layout
\* keeps nothing finer than the minute.
formatTimestamp(t) ==
  <<"0", "1", "-", "0", "1", "-", "2", "4", "-">>
    \o PadStart2(((t \div TicksPerMinute) \div 60) % 24) \o <<":">>
    \o PadStart2((t \div TicksPerMinute) % 60)

backupNameAt(t) == prefix \o formatTimestamp(t)

\* ------------------------------------------------------------------ roles
Roles == {"main", "live", "unpublished"}

\* The published theme can have role 'main' or 'live'
IsPublished(t) == t.role = "main" \/ t.role = "live"

Theme(i, n, r, c, p) ==
  [id |-> i, name |-> n, role |-> r, created_at |-> c, processing |-> p]

\* ------------------------------------------------------------- sequences
Range(s) == {s[i] : i \in DOMAIN s}

\* themes.sort((a, b) => new Date(a.created_at) - new Date(b.created_at))
RECURSIVE SortByCreatedAt(_)
SortByCreatedAt(S) ==
  IF S = {} THEN <<>>
  ELSE LET m == CHOOSE t \in S : \A u \in S : t.created_at <= u.created_at
       IN  <<m>> \o SortByCreatedAt(S \ {m})

\* array.slice(from, to) with 0-based, end-exclusive indices
Slice(s, from, to) == SubSeq(s, from + 1, to)

\* --------------------------------------------------------- version engine
Formats == {"X.X.X", "X.X.XX", "X.XX.XX"}
NoVersion == <<>>

IsDigit(c) == c \in {"0", "1", "2", "3", "4", "5", "6", "7", "8", "9"}

DigitVal(c) == CASE c = "0" -> 0 [] c = "1" -> 1 [] c = "2" -> 2 [] c = "3" -> 3
                 [] c = "4" -> 4 [] c = "5" -> 5 [] c = "6" -> 6 [] c = "7" -> 7
                 [] c = "8" -> 8 [] OTHER -> 9

\* parseInt(p, 10) || 0 : the leading digits of p, 0 when there are none
RECURSIVE parseIntFrom(_, _)
parseIntFrom(p, acc) ==
  IF p = <<>> \/ ~IsDigit(Head(p)) THEN acc
  ELSE parseIntFrom(Tail(p), acc * 10 + DigitVal(Head(p)))

parseInt(p) == parseIntFrom(p, 0)

\* version.split('.')
RECURSIVE SplitDots(_, _)
SplitDots(s, cur) ==
  IF s = <<>> THEN <<cur>>
  ELSE IF Head(s) = "." THEN <<cur>> \o SplitDots(Tail(s), <<>>)
  ELSE SplitDots(Tail(s), Append(cur, Head(s)))

split(s) == SplitDots(s, <<>>)

\* \d+\.\d+\.\d+
IsVersionBody(s) ==
  LET parts == split(s)
  IN  /\ Len(parts) = 3
      /\ \A i \in 1..3 : /\ parts[i] # <<>>
                          /\ \A k \in 1..Len(parts[i]) : IsDigit(parts[i][k])

\* String.prototype.trim
RECURSIVE TrimLeft(_)
TrimLeft(s) == IF s # <<>> /\ Head(s) = " " THEN TrimLeft(Tail(s)) ELSE s

RECURSIVE TrimRight(_)
TrimRight(s) ==
  IF s # <<>> /\ s[Len(s)] = " " THEN TrimRight(SubSeq(s, 1, Len(s) - 1)) ELSE s

trim(s) == TrimRight(TrimLeft(s))

\* /\[(\d+\.\d+\.\d+)\]$/ : the positions of a "[" that opens a tag closed by
\* the last character of the name
TagStarts(themeName) ==
  {i \in 1..Len(themeName) :
     /\ themeName[i] = "["
     /\ themeName[Len(themeName)] = "]"
     /\ IsVersionBody(SubSeq(themeName, i + 1, Len(themeName) - 1))}

extractVersion(themeName) ==
  IF TagStarts(themeName) # {}
  THEN LET i == CHOOSE k \in TagStarts(themeName) : \A m \in TagStarts(themeName) : k <= m
       IN  [hasVersion |-> TRUE,
            version |-> SubSeq(themeName, i + 1, Len(themeName) - 1),
            baseName |-> trim(SubSeq(themeName, 1, i - 1))]
  ELSE [hasVersion |-> FALSE, version |-> NoVersion, baseName |-> themeName]

parseVersion(version) ==
  IF version = NoVersion THEN [major |-> 0, minor |-> 0, patch |-> 0]
  ELSE LET parts == split(version)
           part(i) == IF i <= Len(parts) THEN parseInt(parts[i]) ELSE 0
       IN  [major |-> part(1), minor |-> part(2), patch |-> part(3)]

formatVersion(major, minor, patch, format) ==
  IF format = "X.X.X"
  THEN NumStr(major) \o <<".">> \o NumStr(minor) \o <<".">> \o NumStr(patch)
  ELSE IF format = "X.X.XX"
  THEN NumStr(major) \o <<".">> \o NumStr(minor) \o <<".">> \o PadStart2(patch)
  ELSE NumStr(major) \o <<".">> \o PadStart2(minor) \o <<".">> \o PadStart2(patch)

\* the initial version of a format
zeroForm(format) ==
  IF format = "X.X.X" THEN <<"0", ".", "0", ".", "1">>
  ELSE IF format = "X.X.XX" THEN <<"0", ".", "0", ".", "0", "1">>
  ELSE <<"0", ".", "0", "0", ".", "0", "1">>

\* a bump whose patch rollover forgets the carry into minor
bumpVersion_NoCarry(currentVersion, format) ==
  IF currentVersion = NoVersion THEN zeroForm(format)
  ELSE LET v == parseVersion(currentVersion)
       IN  IF v.patch + 1 >= 100
           THEN formatVersion(v.major, v.minor, 0, format)
           ELSE formatVersion(v.major, v.minor, v.patch + 1, format)

\* a bump that rolls a component over one step early, at 99
bumpVersion_RollAt99(currentVersion, format) ==
  IF currentVersion = NoVersion THEN zeroForm(format)
  ELSE LET v == parseVersion(currentVersion)
           newPatch == v.patch + 1
           rollPatch == newPatch >= 99
           newMinor == IF rollPatch THEN v.minor + 1 ELSE v.minor
           rollMinor == rollPatch /\ newMinor >= 99
           newMajor == IF rollMinor THEN v.major + 1 ELSE v.major
       IN  IF rollMinor /\ newMajor >= 100 THEN zeroForm(format)
           ELSE formatVersion(newMajor,
                              IF rollMinor THEN 0 ELSE newMinor,
                              IF rollPatch THEN 0 ELSE newPatch,
                              format)

\* a bump without the overflow policy: major simply becomes 100
bumpVersion_NoReset(currentVersion, format) ==
  IF currentVersion = NoVersion THEN zeroForm(format)
  ELSE LET v == parseVersion(currentVersion)
           newPatch == v.patch + 1
           rollPatch == newPatch >= 100
           newMinor == IF rollPatch THEN v.minor + 1 ELSE v.minor
           rollMinor == rollPatch /\ newMinor >= 100
           newMajor == IF rollMinor THEN v.major + 1 ELSE v.major
       IN  formatVersion(newMajor,
                         IF rollMinor THEN 0 ELSE newMinor,
                         IF rollPatch THEN 0 ELSE newPatch,
                         format)

bumpVersion(currentVersion, format) ==
  IF currentVersion = NoVersion THEN zeroForm(format)
  ELSE LET v == parseVersion(currentVersion)
           newPatch == v.patch + 1
           rollPatch == newPatch >= 100
           newMinor == IF rollPatch THEN v.minor + 1 ELSE v.minor
           rollMinor == rollPatch /\ newMinor >= 100
           newMajor == IF rollMinor THEN v.major + 1 ELSE v.major
       IN  IF rollMinor /\ newMajor >= 100 THEN zeroForm(format)
           ELSE formatVersion(newMajor,
                              IF rollMinor THEN 0 ELSE newMinor,
                              IF rollPatch THEN 0 ELSE newPatch,
                              format)

\* whether bumpVersion calls core.warning: the major component reached 100
bumpVersionWarns(currentVersion, format) ==
  /\ currentVersion # NoVersion
  /\ LET v == parseVersion(currentVersion)
     IN  v.patch + 1 >= 100 /\ v.minor + 1 >= 100 /\ v.major + 1 >= 100

compareVersions(version1, version2) ==
  IF version1 = NoVersion \/ version2 = NoVersion THEN 0
  ELSE LET v1 == parseVersion(version1)
           v2 == parseVersion(version2)
           num1 == v1.major * 10000 + v1.minor * 100 + v1.patch
           num2 == v2.major * 10000 + v2.minor * 100 + v2.patch
       IN  IF num1 < num2 THEN -1 ELSE IF num1 > num2 THEN 1 ELSE 0

\* ------------------------------------------------------------------ state
VARIABLES
  themes,   \* the remote store: the set of theme records
  nextId,   \* id the store gives to the next created theme
  now,      \* the clock, in ticks
  config,   \* the configuration object handed to productionDeploy
  pc,       \* position of productionDeploy
  calls,    \* every store-changing CLI call (create, delete, push, rename), in order
  reads,    \* the read-only CLI commands (list, info, pull, open) issued so far
  d,        \* local variables of productionDeploy and its callees
  error     \* the error productionDeploy throws

vars == <<themes, nextId, now, config, pc, calls, reads, d, error>>

\* A property the code never sets on an object reads as undefined.
Undefined == "undefined"

\* An error as the caller of productionDeploy holds it: `message` and
\* `failedStage` are what the caller reads from the object; `stage` is not a
\* property of the object, it notes the step that raised it.
NoError == [stage |-> "none", message |-> "none", failedStage |-> Undefined]

\* an ignore list that leaves the locale files to Phase A
ignorePatterns_NoLocales ==
  {"templates/*.json", "templates/**/*.json", "sections/*.json", "snippets/*.json",
   "blocks/*.json", "config/settings_data.json"}

ignorePatterns ==
  {"templates/*.json", "templates/**/*.json", "sections/*.json", "snippets/*.json",
   "blocks/*.json", "config/settings_data.json", "locales/*.json"}

defaultLocaleFiles == {"locales/en.default.json", "locales/en.default.schema.json"}

NoArgs == [ignore |-> {}, only |-> {}, nodelete |-> FALSE, allowLive |-> FALSE]

ThemeById(id) == IF \E t \in themes : t.id = id
                 THEN CHOOSE t \in themes : t.id = id
                 ELSE NoTheme

\* One remote call as it is logged: the operation, its target, whether the
\* target was the published theme when the call was issued, and its outcome.
CallWith(op, id, ok, args) ==
  [op |-> op, id |-> id,
   published |-> \E t \in themes : t.id = id /\ IsPublished(t),
   ok |-> ok, args |-> args]

Call(op, id, ok) == CallWith(op, id, ok, NoArgs)

\* ------------------------------------------------------------ initial store
\* The kinds of theme that matter to backup handling: an unpublished backup,
\* or the published theme under a backup name or under its own name.
Kinds == {"backup", "main_backup", "live_backup", "main_plain"}

KindRole(k) == IF k \in {"main_backup", "main_plain"} THEN "main"
               ELSE IF k \in {"live_backup", "live_plain"} THEN "live"
               ELSE "unpublished"

KindName(k, c) == IF k \in {"main_plain", "live_plain"} THEN ProdName
                  ELSE backupNameAt(c)

FirstFiller == MaxSpecial + 1

TaggedName == <<"S", "h", "o", "p", " ", "[", "0", ".", "9", "9", ".", "9", "9", "]">>

\* Special themes are created at ticks 1..k in id order; fillers are other
\* unpublished themes, the first of which carries a version tag.  The store
\* is one theme below the platform cap or at it.
SpecialThemes(kinds) ==
  {Theme(i, KindName(kinds[i], i), KindRole(kinds[i]), i, FALSE) : i \in DOMAIN kinds}

FillerThemes(f) ==
  {Theme(FirstFiller + i, IF i = 0 THEN TaggedName ELSE OtherName, "unpublished", 0, FALSE)
     : i \in 0..(f - 1)}

KindSeqs ==
  {ks \in UNION {[1..k -> Kinds] : k \in 0..MaxSpecial} :
     Cardinality({i \in DOMAIN ks : ks[i] # "backup"}) <= 1}

FillerChoices(k) == {maxThemes - k - 1, maxThemes - k}

Stores ==
  UNION {{SpecialThemes(ks) \cup FillerThemes(f) : f \in FillerChoices(Len(ks))}
           : ks \in KindSeqs}

TargetChoices(store) ==
  {NoId, MissingId, FirstFiller} \cup {t.id : t \in {u \in store : IsPublished(u)}}

Configs(store) ==
  [dryRun : BOOLEAN,
   build : [enabled : BOOLEAN],
   backup : [enabled : BOOLEAN, retention : 1..MaxRetention],
   secrets : [productionThemeId : TargetChoices(store),
              slackWebhookUrl : {NoUrl}, msTeamsWebhookUrl : {NoUrl}],
   deploy : [allowLivePush : BOOLEAN, ignoreJsonOnProd : BOOLEAN],
   push : [nodelete : BOOLEAN],
   versioning : [enabled : BOOLEAN, format : {"X.XX.XX"}, source : {"theme"},
                 start : {NoVersion}]]

NoLocals ==
  [capacity |-> [current |-> 0, max |-> 0, available |-> 0, backups |-> 0,
                 canCreate |-> FALSE, needsCleanup |-> FALSE],
   capListing |-> {}, oldest |-> NoTheme, backupName |-> <<>>, liveTheme |-> NoTheme,
   backupTheme |-> NoTheme, polls |-> 0,
   listing |-> {}, toDelete |-> <<>>, toKeep |-> <<>>, deleted |-> <<>>, idx |-> 0,
   productionTheme |-> NoTheme,
   versionResult |-> [oldVersion |-> NoVersion, version |-> NoVersion,
                      oldName |-> <<>>, name |-> <<>>, baseName |-> <<>>],
   releaseVersion |-> NoVersion, newVersion |-> NoVersion, built |-> FALSE,
   result |-> [themeId |-> NoId, themeName |-> <<>>, version |-> NoVersion,
               backupId |-> NoId]]

Init ==
  /\ themes \in Stores
  /\ Cardinality(themes) <= maxThemes
  /\ nextId = 50
  /\ now = MaxSpecial + 1
  /\ config \in Configs(themes)
  /\ pc = "start"
  /\ calls = <<>>
  /\ reads = {}
  /\ d = NoLocals
  /\ error = NoError

\* ------------------------------------------------------------ shopify-cli
\* getLiveTheme's search of a listing
findLive(listing) ==
  IF \E t \in listing : IsPublished(t)
  THEN CHOOSE t \in listing : IsPublished(t)
  ELSE NoTheme

\* getThemeById: `theme info` first, whose failure is swallowed, then a
\* listing.  Each outcome is the commands issued, the theme or NoTheme, and
\* whether the listing threw.
getThemeById(id) ==
  (IF ThemeById(id) # NoTheme
   THEN {[issued |-> {"info"}, theme |-> ThemeById(id), threw |-> FALSE]}
   ELSE {})
  \cup
  {[issued |-> {"info", "list"}, theme |-> ThemeById(id), threw |-> FALSE],
   [issued |-> {"info", "list"}, theme |-> NoTheme, threw |-> TRUE]}

\* --------------------------------------------------------------- backup.js
isBackup(t) == StartsWith(t.name, prefix) /\ t.role # "main"

\* checkThemeCapacity that still reports room when no slot is left
checkThemeCapacity_RoomAtCap(listing) ==
  LET currentCount == Cardinality(listing)
      backupCount == Cardinality({t \in listing : StartsWith(t.name, prefix)})
      availableSlots == maxThemes - currentCount
  IN  [current |-> currentCount, max |-> maxThemes, available |-> availableSlots,
       backups |-> backupCount,
       canCreate |-> availableSlots >= 0,
       needsCleanup |-> availableSlots < 0 /\ backupCount > 0]

\* checkThemeCapacity that asks for a cleanup whenever there is a backup
checkThemeCapacity_AlwaysCleanup(listing) ==
  LET currentCount == Cardinality(listing)
      backupCount == Cardinality({t \in listing : StartsWith(t.name, prefix)})
      availableSlots == maxThemes - currentCount
  IN  [current |-> currentCount, max |-> maxThemes, available |-> availableSlots,
       backups |-> backupCount,
       canCreate |-> availableSlots > 0 /\ backupCount = 0,
       needsCleanup |-> backupCount > 0]

\* checkThemeCapacity that counts one slot more than the store has
checkThemeCapacity_OneSlotMore(listing) ==
  LET currentCount == Cardinality(listing)
      backupCount == Cardinality({t \in listing : StartsWith(t.name, prefix)})
      availableSlots == maxThemes + 1 - currentCount
  IN  [current |-> currentCount, max |-> maxThemes, available |-> availableSlots,
       backups |-> backupCount,
       canCreate |-> availableSlots > 0,
       needsCleanup |-> availableSlots <= 0 /\ backupCount > 0]

checkThemeCapacity(listing) ==
  LET currentCount == Cardinality(listing)
      backupCount == Cardinality({t \in listing : StartsWith(t.name, prefix)})
      availableSlots == maxThemes - currentCount
  IN  [current |-> currentCount, max |-> maxThemes, available |-> availableSlots,
       backups |-> backupCount,
       canCreate |-> availableSlots > 0,
       needsCleanup |-> availableSlots <= 0 /\ backupCount > 0]

\* ------------------------------------------------------- productionDeploy
\* a catch block that throws a new error of its own in place of the one caught
Fail_NewError(stage, message) ==
  /\ pc' = "failed"
  /\ error' = [stage |-> stage, message |-> "Production deployment failed",
               failedStage |-> Undefined]

\* Which notification, if any, follows: Slack first, then MS Teams, each
\* only when its webhook is configured; `final` is where the deployment ends.
AfterSlack(final) ==
  IF config.secrets.msTeamsWebhookUrl # NoUrl
  THEN (IF final = "done" THEN "teams" ELSE "catch_teams")
  ELSE final
Notify(final) ==
  IF config.secrets.slackWebhookUrl # NoUrl
  THEN (IF final = "done" THEN "slack" ELSE "catch_slack")
  ELSE AfterSlack(final)

\* The catch block: the error is logged, the failure notifications are sent
\* (their own failures are swallowed by the senders) and the same error
\* object is rethrown to the caller; no property is added to it.
Fail(stage, message) ==
  /\ pc' = Notify("failed")
  /\ error' = [stage |-> stage, message |-> message, failedStage |-> Undefined]

\* a deployment that goes from the build straight to the target
AfterBuild_NoBackup == "resolve"

AfterBuild == IF config.backup.enabled THEN "capacity" ELSE "resolve"
\* a deployment that takes its backup after resolving the target
AfterResolve_ThenBackup ==
  IF config.backup.enabled THEN "capacity"
  ELSE IF config.deploy.ignoreJsonOnProd THEN "pushA" ELSE "pushAll"

AfterResolve == IF config.deploy.ignoreJsonOnProd THEN "pushA" ELSE "pushAll"
AfterPush == IF config.versioning.enabled THEN "version" ELSE "result"

DryRunResult ==
  [themeId |-> MissingId, themeName |-> <<"P", "R", "O", "D", "U", "C", "T", "I", "O", "N",
                                          " ", "[", "0", ".", "0", ".", "1", "]">>,
   version |-> <<"0", ".", "0", ".", "1">>, backupId |-> NoId]

\* an entry that does not look at dryRun
Start_IgnoreDryRun ==
  /\ pc = "start"
  /\ pc' = "build"
  /\ UNCHANGED <<themes, nextId, now, config, calls, reads, d, error>>

Start ==
  /\ pc = "start"
  /\ IF config.dryRun
     THEN /\ pc' = "done"
          /\ d' = [d EXCEPT !.result = DryRunResult]
     ELSE /\ pc' = "build"
          /\ UNCHANGED d
  /\ UNCHANGED <<themes, nextId, now, config, calls, reads, error>>

\* Step 1: buildAssets
Build ==
  /\ pc = "build"
  /\ IF config.build.enabled
     THEN \E ok \in BOOLEAN :
            IF ok
            THEN pc' = AfterBuild /\ d' = [d EXCEPT !.built = TRUE] /\ UNCHANGED error
            ELSE Fail("Build", "build failed") /\ UNCHANGED d
     ELSE pc' = AfterBuild /\ UNCHANGED <<d, error>>
  /\ UNCHANGED <<themes, nextId, now, config, calls, reads>>

\* ensureThemeCapacity up to its first listing (checkThemeCapacity)
EnsureThemeCapacity ==
  /\ pc = "capacity"
  /\ \E ok \in BOOLEAN :
       /\ reads' = reads \cup {"list"}
       /\ IF ~ok
          THEN Fail("Backup", "list failed") /\ UNCHANGED d
          ELSE LET capacity == checkThemeCapacity(themes)
               IN  /\ d' = [d EXCEPT !.capacity = capacity]
                   /\ IF capacity.canCreate
                      THEN pc' = "backup" /\ UNCHANGED error
                      ELSE IF ~capacity.needsCleanup
                      THEN Fail("Backup", "Theme limit reached and no backups to clean up")
                      ELSE pc' = "capacity_cleanup" /\ UNCHANGED error
  /\ UNCHANGED <<themes, nextId, now, config, calls>>

\* ensureThemeCapacity: the second listing and the choice of the oldest backup
EnsureThemeCapacityCleanup ==
  /\ pc = "capacity_cleanup"
  /\ \E ok \in BOOLEAN :
       /\ reads' = reads \cup {"list"}
       /\ IF ~ok
          THEN Fail("Backup", "list failed") /\ UNCHANGED d
          ELSE LET backups == SortByCreatedAt({t \in themes : isBackup(t)})
               IN  IF Len(backups) > 0
                   THEN /\ d' = [d EXCEPT !.capListing = themes, !.oldest = backups[1]]
                        /\ pc' = "capacity_delete"
                        /\ UNCHANGED error
                   ELSE /\ Fail("Backup", "No deletable backups found to make space")
                        /\ d' = [d EXCEPT !.capListing = themes]
  /\ UNCHANGED <<themes, nextId, now, config, calls>>

\* ensureThemeCapacity: deleteTheme(oldest.id)
EnsureThemeCapacityDelete ==
  /\ pc = "capacity_delete"
  /\ \E ok \in BOOLEAN :
       /\ calls' = Append(calls, Call("delete", d.oldest.id, ok))
       /\ IF ok
          THEN /\ themes' = {t \in themes : t.id # d.oldest.id}
               /\ pc' = "backup"
               /\ UNCHANGED error
          ELSE /\ Fail("Backup", "delete failed")
               /\ UNCHANGED themes
  /\ UNCHANGED <<nextId, now, config, reads, d>>

\* createBackup up to getLiveTheme
CreateBackup ==
  /\ pc = "backup"
  /\ \E ok \in BOOLEAN :
       /\ reads' = reads \cup {"list"}
       /\ IF ~ok
          THEN Fail("Backup", "list failed") /\ UNCHANGED d
          ELSE IF findLive(themes) = NoTheme
          THEN Fail("Backup", "No live theme found to backup") /\ UNCHANGED d
          ELSE /\ d' = [d EXCEPT !.backupName = backupNameAt(now),
                                 !.liveTheme = findLive(themes)]
               /\ pc' = "dup_pull"
               /\ UNCHANGED error
  /\ UNCHANGED <<themes, nextId, now, config, calls>>

\* duplicateTheme step 2: pull the source theme
DuplicateThemePull ==
  /\ pc = "dup_pull"
  /\ \E ok \in BOOLEAN :
       /\ reads' = reads \cup {"pull"}
       /\ IF ok THEN pc' = "dup_push" /\ UNCHANGED error
          ELSE Fail("Backup", "pull failed")
  /\ UNCHANGED <<themes, nextId, now, config, calls, d>>

\* a push of the new theme that is issued again, up to three more times,
\* when it fails, also when the store has already created the theme
DuplicateThemePush_Retried ==
  /\ pc = "dup_push"
  /\ \E outcome \in {"json", "nojson", "failed", "created_failed"}, processing \in BOOLEAN :
       LET newTheme == Theme(nextId, d.backupName, "unpublished", now, processing)
           ok == outcome \in {"json", "nojson"}
       IN  /\ calls' = Append(calls, Call("create", nextId, ok))
           /\ IF outcome = "failed"
              THEN /\ ~processing
                   /\ UNCHANGED <<themes, nextId, now>>
              ELSE /\ themes' = themes \cup {newTheme}
                   /\ nextId' = nextId + 1
                   /\ now' = now + 1
           /\ IF outcome = "json"
              THEN d' = [d EXCEPT !.backupTheme = newTheme] /\ pc' = "wait" /\ UNCHANGED error
              ELSE IF outcome = "nojson"
              THEN pc' = "dup_find" /\ UNCHANGED <<d, error>>
              ELSE IF Cardinality({i \in DOMAIN calls : calls[i].op = "create"}) < 3
              THEN pc' = "dup_push" /\ UNCHANGED <<d, error>>
              ELSE Fail("Backup", "push failed") /\ UNCHANGED d
  /\ UNCHANGED <<config, reads>>

\* duplicateTheme step 3: push the files as a new unpublished theme.  The CLI
\* either prints the new theme as JSON, creates it without usable output,
\* fails before creating it, or fails after the store created it.
DuplicateThemePush ==
  /\ pc = "dup_push"
  /\ \E outcome \in {"json", "nojson", "failed", "created_failed"}, processing \in BOOLEAN :
       LET newTheme == Theme(nextId, d.backupName, "unpublished", now, processing)
           ok == outcome \in {"json", "nojson"}
       IN  /\ calls' = Append(calls, Call("create", nextId, ok))
           /\ IF outcome = "failed"
              THEN /\ ~processing
                   /\ UNCHANGED <<themes, nextId, now>>
              ELSE /\ themes' = themes \cup {newTheme}
                   /\ nextId' = nextId + 1
                   /\ now' = now + 1
           /\ IF outcome = "json"
              THEN d' = [d EXCEPT !.backupTheme = newTheme] /\ pc' = "wait" /\ UNCHANGED error
              ELSE IF outcome = "nojson"
              THEN pc' = "dup_find" /\ UNCHANGED <<d, error>>
              ELSE Fail("Backup", "push failed") /\ UNCHANGED d
  /\ UNCHANGED <<config, reads>>

\* duplicateTheme: find the new theme by name in a listing
DuplicateThemeFind ==
  /\ pc = "dup_find"
  /\ \E ok \in BOOLEAN :
       /\ reads' = reads \cup {"list"}
       /\ IF ~ok
          THEN Fail("Backup", "list failed") /\ UNCHANGED d
          ELSE IF \E t \in themes : t.name = d.backupName
          THEN \E t \in themes :
                 /\ t.name = d.backupName
                 /\ d' = [d EXCEPT !.backupTheme = t]
                 /\ pc' = "wait"
                 /\ UNCHANGED error
          ELSE Fail("Backup", "Failed to find newly created backup theme") /\ UNCHANGED d
  /\ UNCHANGED <<themes, nextId, now, config, calls>>

\* waitForThemeProcessing: one iteration of pollUntil
WaitForThemeProcessing ==
  /\ pc = "wait"
  /\ \E o \in getThemeById(d.backupTheme.id) :
       /\ reads' = reads \cup o.issued
       /\ IF ~o.threw /\ o.theme # NoTheme /\ ~o.theme.processing
          THEN pc' = "cleanup" /\ d' = [d EXCEPT !.polls = 0] /\ UNCHANGED error
          ELSE \E timedOut \in BOOLEAN :
                 IF timedOut
                 THEN Fail("Backup", "Timeout waiting for theme to finish processing")
                      /\ UNCHANGED d
                 ELSE /\ d.polls < MaxPolls
                      /\ d' = [d EXCEPT !.polls = d.polls + 1]
                      /\ UNCHANGED <<pc, error>>
  /\ UNCHANGED <<themes, nextId, now, config, calls>>

\* The store finishes processing a theme.
ProcessingCompletes ==
  /\ \E t \in themes :
       /\ t.processing
       /\ themes' = (themes \ {t}) \cup {[t EXCEPT !.processing = FALSE]}
  /\ UNCHANGED <<nextId, now, config, pc, calls, reads, d, error>>

\* a cleanup that keeps the oldest backups and selects the newest for deletion
CleanupBackups_KeepOldest ==
  /\ pc = "cleanup"
  /\ \E ok \in BOOLEAN :
       /\ reads' = reads \cup {"list"}
       /\ IF ~ok
          THEN Fail("RetentionCleanup", "list failed") /\ UNCHANGED d
          ELSE LET backupThemes == {t \in themes : isBackup(t)}
                   n == Cardinality(backupThemes)
                   sorted == SortByCreatedAt(backupThemes)
               IN  IF n <= config.backup.retention
                   THEN /\ d' = [d EXCEPT !.listing = themes, !.toDelete = <<>>,
                                          !.toKeep = sorted, !.deleted = <<>>]
                        /\ pc' = "resolve"
                        /\ UNCHANGED error
                   ELSE /\ d' = [d EXCEPT
                                   !.listing = themes,
                                   !.toDelete = Slice(sorted, config.backup.retention, n),
                                   !.toKeep = Slice(sorted, 0, config.backup.retention),
                                   !.deleted = <<>>,
                                   !.idx = 1]
                        /\ pc' = "cleanup_delete"
                        /\ UNCHANGED error
  /\ UNCHANGED <<themes, nextId, now, config, calls>>

\* cleanupBackups up to the choice of the backups to delete
CleanupBackups ==
  /\ pc = "cleanup"
  /\ \E ok \in BOOLEAN :
       /\ reads' = reads \cup {"list"}
       /\ IF ~ok
          THEN Fail("RetentionCleanup", "list failed") /\ UNCHANGED d
          ELSE LET backupThemes == {t \in themes : isBackup(t)}
                   n == Cardinality(backupThemes)
                   sorted == SortByCreatedAt(backupThemes)
               IN  IF n <= config.backup.retention
                   THEN /\ d' = [d EXCEPT !.listing = themes, !.toDelete = <<>>,
                                          !.toKeep = sorted, !.deleted = <<>>]
                        /\ pc' = "resolve"
                        /\ UNCHANGED error
                   ELSE /\ d' = [d EXCEPT
                                   !.listing = themes,
                                   !.toDelete = Slice(sorted, 0, n - config.backup.retention),
                                   !.toKeep = Slice(sorted, n - config.backup.retention, n),
                                   !.deleted = <<>>,
                                   !.idx = 1]
                        /\ pc' = "cleanup_delete"
                        /\ UNCHANGED error
  /\ UNCHANGED <<themes, nextId, now, config, calls>>

\* a deletion loop that gives up at the first deletion that fails
CleanupBackupsDelete_Abort ==
  /\ pc = "cleanup_delete"
  /\ LET theme == d.toDelete[d.idx]
         last == d.idx = Len(d.toDelete)
     IN  \E ok \in BOOLEAN :
           /\ calls' = Append(calls, Call("delete", theme.id, ok))
           /\ IF ok
              THEN /\ themes' = {t \in themes : t.id # theme.id}
                   /\ d' = [d EXCEPT !.idx = d.idx + 1,
                                     !.deleted = Append(d.deleted, theme)]
                   /\ pc' = IF last THEN "resolve" ELSE "cleanup_delete"
                   /\ UNCHANGED error
              ELSE /\ Fail("RetentionCleanup", "delete failed")
                   /\ UNCHANGED <<themes, d>>
  /\ UNCHANGED <<nextId, now, config, reads>>

\* cleanupBackups: one iteration of the deletion loop; a failed deletion is
\* logged and the loop continues
CleanupBackupsDelete ==
  /\ pc = "cleanup_delete"
  /\ LET theme == d.toDelete[d.idx]
         last == d.idx = Len(d.toDelete)
     IN  /\ pc' = IF last THEN "resolve" ELSE "cleanup_delete"
         /\ IF theme.role = "main"
            THEN /\ d' = [d EXCEPT !.idx = d.idx + 1]
                 /\ UNCHANGED <<themes, calls>>
            ELSE \E ok \in BOOLEAN :
                   /\ calls' = Append(calls, Call("delete", theme.id, ok))
                   /\ IF ok
                      THEN /\ themes' = {t \in themes : t.id # theme.id}
                           /\ d' = [d EXCEPT !.idx = d.idx + 1,
                                             !.deleted = Append(d.deleted, theme)]
                      ELSE /\ d' = [d EXCEPT !.idx = d.idx + 1]
                           /\ UNCHANGED themes
  /\ UNCHANGED <<nextId, now, config, reads, error>>

\* a resolution that falls back to the published theme when the configured
\* id is not in the store
ResolveTarget_FallBackToLive ==
  /\ pc = "resolve"
  /\ \E ok \in BOOLEAN :
       /\ reads' = reads \cup {"list"}
       /\ IF ~ok
          THEN Fail("ResolveTarget", "list failed") /\ UNCHANGED d
          ELSE LET configured == ThemeById(config.secrets.productionThemeId)
                   target == IF configured # NoTheme THEN configured ELSE findLive(themes)
               IN  IF target = NoTheme
                   THEN Fail("ResolveTarget", "No live theme found") /\ UNCHANGED d
                   ELSE /\ d' = [d EXCEPT !.productionTheme = target]
                        /\ pc' = AfterResolve
                        /\ UNCHANGED error
  /\ UNCHANGED <<themes, nextId, now, config, calls>>

\* Step 4: select the production target
ResolveTarget ==
  /\ pc = "resolve"
  /\ IF config.secrets.productionThemeId # NoId
     THEN \E o \in getThemeById(config.secrets.productionThemeId) :
            /\ reads' = reads \cup o.issued
            /\ IF o.threw
               THEN Fail("ResolveTarget", "list failed") /\ UNCHANGED d
               ELSE IF o.theme = NoTheme
               THEN Fail("ResolveTarget", "Production theme not found") /\ UNCHANGED d
               ELSE /\ d' = [d EXCEPT !.productionTheme = o.theme]
                    /\ pc' = AfterResolve
                    /\ UNCHANGED error
     ELSE \E ok \in BOOLEAN :
            /\ reads' = reads \cup {"list"}
            /\ IF ~ok
               THEN Fail("ResolveTarget", "list failed") /\ UNCHANGED d
               ELSE IF findLive(themes) = NoTheme
               THEN Fail("ResolveTarget", "No live theme found") /\ UNCHANGED d
               ELSE IF ~config.deploy.allowLivePush
               THEN Fail("ResolveTarget", "deploy.allow_live_push is false") /\ UNCHANGED d
               ELSE /\ d' = [d EXCEPT !.productionTheme = findLive(themes)]
                    /\ pc' = AfterResolve
                    /\ UNCHANGED error
  /\ UNCHANGED <<themes, nextId, now, config, calls>>

\* pushThemeFiles that swallows the failure of the push
pushThemeFiles_Swallow(themeId, options, stage, next) ==
  \E ok \in BOOLEAN :
    /\ calls' = Append(calls, CallWith("push", themeId, ok, options))
    /\ pc' = next
    /\ UNCHANGED error

\* pushThemeFiles: one `theme push` under withRetry
pushThemeFiles(themeId, options, stage, next) ==
  \E ok \in BOOLEAN :
    /\ calls' = Append(calls, CallWith("push", themeId, ok, options))
    /\ IF ok THEN pc' = next /\ UNCHANGED error
       ELSE Fail(stage, "push failed")

\* Step 5, Phase A: everything except the JSON files
PushPhaseA ==
  /\ pc = "pushA"
  /\ pushThemeFiles(d.productionTheme.id,
                    [ignore |-> ignorePatterns, only |-> {},
                     nodelete |-> config.push.nodelete, allowLive |-> TRUE],
                    "PushPhaseA", "pushB")
  /\ UNCHANGED <<themes, nextId, now, config, reads, d>>

\* a Phase B that takes the global nodelete setting, as Phase A does
PushPhaseB_GlobalNodelete ==
  /\ pc = "pushB"
  /\ pushThemeFiles(d.productionTheme.id,
                    [ignore |-> {}, only |-> defaultLocaleFiles,
                     nodelete |-> config.push.nodelete, allowLive |-> TRUE],
                    "PushPhaseB", AfterPush)
  /\ UNCHANGED <<themes, nextId, now, config, reads, d>>

\* Step 5, Phase B: only the default locale and schema
PushPhaseB ==
  /\ pc = "pushB"
  /\ pushThemeFiles(d.productionTheme.id,
                    [ignore |-> {}, only |-> defaultLocaleFiles,
                     nodelete |-> TRUE, allowLive |-> TRUE],
                    "PushPhaseB", AfterPush)
  /\ UNCHANGED <<themes, nextId, now, config, reads, d>>

\* Step 5 without ignoreJsonOnProd: push everything
PushAll ==
  /\ pc = "pushAll"
  /\ pushThemeFiles(d.productionTheme.id,
                    [ignore |-> {}, only |-> {},
                     nodelete |-> config.push.nodelete, allowLive |-> TRUE],
                    "PushPhaseA", AfterPush)
  /\ UNCHANGED <<themes, nextId, now, config, reads, d>>

\* getLatestReleaseVersion: the tag of the latest release without a leading
\* "v"; null when there is no release or the request fails
NoTag == <<>>
ReleaseTags == {NoTag, <<"v", "1", ".", "0", ".", "9">>}

getLatestReleaseVersion(tag_name) ==
  IF tag_name = NoTag THEN NoVersion
  ELSE IF Head(tag_name) = "v" THEN Tail(tag_name)
  ELSE tag_name

\* a version stage in which the starting version replaces the tag of the name
oldVersionOf_StartWins(versionInfo, startVersion) ==
  IF startVersion # NoVersion THEN startVersion ELSE versionInfo.version

\* renameThemeWithVersion's choice of the version to bump: the tag of the
\* name, or the starting version when the name has none
oldVersionOf(versionInfo, startVersion) ==
  IF versionInfo.version = NoVersion /\ startVersion # NoVersion
  THEN startVersion
  ELSE versionInfo.version

\* Step 6 up to the rename: the starting version is the configured one, or
\* the latest release when versioning.source is 'release' and there is one;
\* then renameThemeWithVersion up to the computation of the new name, which
\* takes five parameters and does not see the sixth argument of the call.
RenameThemeWithVersion ==
  /\ pc = "version"
  /\ \E tag_name \in (IF config.versioning.source = "release" THEN ReleaseTags
                        ELSE {NoTag}) :
     \E o \in getThemeById(d.productionTheme.id) :
       LET releaseVersion == getLatestReleaseVersion(tag_name)
           startVersion == IF releaseVersion # NoVersion THEN releaseVersion
                           ELSE config.versioning.start
       IN
       /\ reads' = reads \cup o.issued
                      \cup (IF config.versioning.source = "release" THEN {"release"} ELSE {})
       /\ IF o.threw
          THEN /\ Fail("Version", "list failed")
               /\ d' = [d EXCEPT !.releaseVersion = releaseVersion]
          ELSE IF o.theme = NoTheme
          THEN /\ Fail("Version", "Theme not found")
               /\ d' = [d EXCEPT !.releaseVersion = releaseVersion]
          ELSE LET versionInfo == extractVersion(o.theme.name)
                   oldVersion == oldVersionOf(versionInfo, startVersion)
                   newVersion == bumpVersion(oldVersion, config.versioning.format)
                   newName == versionInfo.baseName \o <<" ", "[">> \o newVersion \o <<"]">>
               IN  /\ d' = [d EXCEPT !.releaseVersion = releaseVersion,
                                     !.versionResult =
                              [oldVersion |-> oldVersion, version |-> newVersion,
                               oldName |-> o.theme.name, name |-> newName,
                               baseName |-> versionInfo.baseName]]
                   /\ pc' = "rename"
                   /\ UNCHANGED error
  /\ UNCHANGED <<themes, nextId, now, config, calls>>

\* renameTheme: `theme rename`; when it fails, `theme info` is tried and only
\* its failure is thrown
RenameTheme ==
  /\ pc = "rename"
  /\ LET id == d.productionTheme.id
         returned == [d EXCEPT !.newVersion = d.versionResult.version,
                               !.productionTheme.name = d.versionResult.name]
     IN  \E outcome \in {"renamed", "info_ok", "info_failed"} :
           /\ IF outcome = "renamed"
              THEN /\ calls' = Append(calls, Call("rename", id, TRUE))
                   /\ themes' = {IF t.id = id THEN [t EXCEPT !.name = d.versionResult.name]
                                 ELSE t : t \in themes}
                   /\ UNCHANGED reads
              ELSE /\ calls' = Append(calls, Call("rename", id, FALSE))
                   /\ reads' = reads \cup {"info"}
                   /\ UNCHANGED themes
           /\ IF outcome = "info_failed"
              THEN Fail("Version", "rename failed") /\ UNCHANGED d
              ELSE d' = returned /\ pc' = "result" /\ UNCHANGED error
  /\ UNCHANGED <<nextId, now, config>>

\* openTheme, whose failure is ignored, and the result object
BuildResult ==
  /\ pc = "result"
  /\ reads' = reads \cup {"open"}
  /\ d' = [d EXCEPT !.result = [themeId |-> d.productionTheme.id,
                                themeName |-> d.productionTheme.name,
                                version |-> d.newVersion,
                                backupId |-> d.backupTheme.id]]
  /\ pc' = Notify("done")
  /\ UNCHANGED <<themes, nextId, now, config, calls, error>>

\* a Slack sender that lets a failed delivery escape to its caller: thrown
\* in the try block it is caught as the deployment's error, thrown in the
\* catch block it replaces the error being rethrown
SendSlackNotification_Rethrow ==
  /\ pc \in {"slack", "catch_slack"}
  /\ \E delivered \in BOOLEAN :
       /\ calls' = Append(calls, Call("slack", NoId, delivered))
       /\ IF delivered
          THEN /\ pc' = AfterSlack(IF pc = "slack" THEN "done" ELSE "failed")
               /\ UNCHANGED error
          ELSE /\ pc' = IF pc = "slack" THEN Notify("failed") ELSE "failed"
               /\ error' = [stage |-> "Notify", message |-> "Slack notification failed",
                            failedStage |-> Undefined]
  /\ UNCHANGED <<themes, nextId, now, config, reads, d>>

\* Step 7 and the catch block: sendSlackNotification posts to the webhook;
\* a rejected post or a status other than 200 is logged as a warning inside
\* the sender and nothing is thrown.
SendSlackNotification ==
  /\ pc \in {"slack", "catch_slack"}
  /\ \E delivered \in BOOLEAN :
       calls' = Append(calls, Call("slack", NoId, delivered))
  /\ pc' = AfterSlack(IF pc = "slack" THEN "done" ELSE "failed")
  /\ UNCHANGED <<themes, nextId, now, config, reads, d, error>>

\* sendMSTeamsNotification, the same way
SendMSTeamsNotification ==
  /\ pc \in {"teams", "catch_teams"}
  /\ \E delivered \in BOOLEAN :
       calls' = Append(calls, Call("teams", NoId, delivered))
  /\ pc' = IF pc = "teams" THEN "done" ELSE "failed"
  /\ UNCHANGED <<themes, nextId, now, config, reads, d, error>>

Next ==
  \/ Start
  \/ Build
  \/ EnsureThemeCapacity
  \/ EnsureThemeCapacityCleanup
  \/ EnsureThemeCapacityDelete
  \/ CreateBackup
  \/ DuplicateThemePull
  \/ DuplicateThemePush
  \/ DuplicateThemeFind
  \/ WaitForThemeProcessing
  \/ ProcessingCompletes
  \/ CleanupBackups
  \/ CleanupBackupsDelete
  \/ ResolveTarget
  \/ PushPhaseA
  \/ PushPhaseB
  \/ PushAll
  \/ RenameThemeWithVersion
  \/ RenameTheme
  \/ BuildResult

Spec == Init /\ [][Next]_vars

\* ------------------------------------- deployments without a backup stage
\* A store of the published theme and one other theme, whose name carries a
\* tag or none, deployed to under every versioning and push option.
ShopName == <<"S", "h", "o", "p">>
TargetTags == {NoVersion, <<"5", ".", "0", ".", "0">>, <<"1", ".", "0", ".", "4">>,
               <<"0", ".", "9", "9", ".", "9", "9">>}
TargetNames ==
  {IF v = NoVersion THEN ShopName ELSE ShopName \o <<" ", "[">> \o v \o <<"]">>
     : v \in TargetTags}

StartVersions == {NoVersion, <<"3", ".", "0", ".", "0">>}

VersionStores ==
  {{Theme(1, ProdName, "main", 1, FALSE), Theme(2, n, "unpublished", 0, FALSE)}
     : n \in TargetNames}

VersionConfigs ==
  [dryRun : {FALSE},
   build : [enabled : {FALSE}],
   backup : [enabled : {FALSE}, retention : {1}],
   secrets : [productionThemeId : {NoId, 2},
              slackWebhookUrl : {NoUrl}, msTeamsWebhookUrl : {NoUrl}],
   deploy : [allowLivePush : {TRUE}, ignoreJsonOnProd : BOOLEAN,
             pushDefaultLocale : BOOLEAN],
   push : [nodelete : BOOLEAN],
   versioning : [enabled : {TRUE}, format : Formats, source : {"theme", "release"},
                 start : StartVersions]]

VersionInit ==
  /\ themes \in VersionStores
  /\ nextId = 50
  /\ now = 2
  /\ config \in VersionConfigs
  /\ pc = "start"
  /\ calls = <<>>
  /\ reads = {}
  /\ d = NoLocals
  /\ error = NoError

VersionNext ==
  \/ Start
  \/ Build
  \/ ResolveTarget
  \/ PushPhaseA
  \/ PushPhaseB
  \/ PushAll
  \/ RenameThemeWithVersion
  \/ RenameTheme
  \/ BuildResult

VersionSpec == VersionInit /\ [][VersionNext]_vars

\* ------------------------------------------- deployments that notify
\* Real deployments without build, backup and versioning, and dry runs of
\* deployments that have them configured.
NotifyConfigs ==
  [dryRun : {FALSE},
   build : [enabled : {FALSE}],
   backup : [enabled : {FALSE}, retention : {MaxRetention}],
   secrets : [productionThemeId : {NoId, 2, MissingId},
              slackWebhookUrl : Webhooks, msTeamsWebhookUrl : Webhooks],
   deploy : [allowLivePush : BOOLEAN, ignoreJsonOnProd : {FALSE}],
   push : [nodelete : {FALSE}],
   versioning : [enabled : {FALSE}, format : {"X.XX.XX"}, source : {"theme"},
                 start : {NoVersion}]]
  \cup
  [dryRun : {TRUE},
   build : [enabled : BOOLEAN],
   backup : [enabled : BOOLEAN, retention : {MaxRetention}],
   secrets : [productionThemeId : {NoId, 2},
              slackWebhookUrl : Webhooks, msTeamsWebhookUrl : Webhooks],
   deploy : [allowLivePush : {TRUE}, ignoreJsonOnProd : BOOLEAN],
   push : [nodelete : {FALSE}],
   versioning : [enabled : BOOLEAN, format : {"X.XX.XX"}, source : {"theme"},
                 start : {NoVersion}]]

NotifyInit ==
  /\ themes \in VersionStores
  /\ nextId = 50
  /\ now = MaxSpecial + 1
  /\ config \in NotifyConfigs
  /\ pc = "start"
  /\ calls = <<>>
  /\ reads = {}
  /\ d = NoLocals
  /\ error = NoError

NotifyNext ==
  \/ Start
  \/ Build
  \/ ResolveTarget
  \/ PushAll
  \/ BuildResult
  \/ SendSlackNotification
  \/ SendMSTeamsNotification

NotifySpec == NotifyInit /\ [][NotifyNext]_vars

\* ---------------------------------------------- consecutive deployments
\* Deployments run one after another against a store that starts without a
\* backup: the published theme and other themes, few or enough for the cap
\* to be met while the backups accumulate.
CycleStores ==
  {{Theme(1, ProdName, "main", 1, FALSE)}
     \cup {Theme(FirstFiller + i, OtherName, "unpublished", 0, FALSE) : i \in 0..(f - 1)}
     : f \in {2, maxThemes - 4}}

\* getConfig: Math.max(0, parseInt(getInput('backup_retention') || '3', 10) || 3)
backupRetention(input) ==
  LET text == IF input = <<>> THEN <<"3">> ELSE input
      parsed == IF Head(text) = "-" THEN 0 - parseInt(Tail(text)) ELSE parseInt(text)
      orThree == IF parsed = 0 THEN 3 ELSE parsed
  IN  IF orThree < 0 THEN 0 ELSE orThree

\* The backup_retention input: absent, "3", "0" and "-1".
RetentionInputs == {<<>>, <<"3">>, <<"0">>, <<"-", "1">>}

CycleConfigs ==
  [dryRun : {FALSE},
   build : [enabled : {FALSE}],
   backup : [enabled : {TRUE}, retention : {backupRetention(i) : i \in RetentionInputs}],
   secrets : [productionThemeId : {FirstFiller},
              slackWebhookUrl : {NoUrl}, msTeamsWebhookUrl : {NoUrl}],
   deploy : [allowLivePush : {FALSE}, ignoreJsonOnProd : {FALSE}],
   push : [nodelete : {FALSE}],
   versioning : [enabled : {FALSE}, format : {"X.XX.XX"}, source : {"theme"},
                 start : {NoVersion}]]

CycleInit ==
  /\ themes \in CycleStores
  /\ nextId = 50
  /\ now = MaxSpecial + 1
  /\ config \in CycleConfigs
  /\ pc = "start"
  /\ calls = <<>>
  /\ reads = {}
  /\ d = NoLocals
  /\ error = NoError

\* The workflow runs again: productionDeploy is entered anew with the same
\* configuration against the store as the last run left it.
Redeploy ==
  /\ pc = "done"
  /\ nextId - 50 < MaxCycles
  /\ Cardinality({i \in DOMAIN calls : calls[i].op = "rename"}) < MaxCycles
  /\ pc' = "start"
  /\ d' = NoLocals
  /\ UNCHANGED <<themes, nextId, now, config, calls, reads, error>>

CycleNext ==
  \/ Start
  \/ Build
  \/ EnsureThemeCapacity
  \/ EnsureThemeCapacityCleanup
  \/ EnsureThemeCapacityDelete
  \/ CreateBackup
  \/ DuplicateThemePull
  \/ DuplicateThemePush
  \/ DuplicateThemeFind
  \/ WaitForThemeProcessing
  \/ ProcessingCompletes
  \/ CleanupBackups
  \/ CleanupBackupsDelete
  \/ ResolveTarget
  \/ PushAll
  \/ BuildResult
  \/ Redeploy

CycleSpec == CycleInit /\ [][CycleNext]_vars

\* ------------------------------------------- successive version renames
\* One target theme renamed by deployment after deployment. Its first name
\* carries a tag or none, and may carry the whitespace a name typed into the
\* admin can end with.
PaddedNames ==
  {ShopName \o <<" ">>,
   ShopName \o <<" ", "[", "1", ".", "0", ".", "4", "]", " ">>}

TagStores ==
  {{Theme(1, ProdName, "main", 1, FALSE), Theme(2, n, "unpublished", 0, FALSE)}
     : n \in TargetNames \cup PaddedNames}

TagConfigs ==
  [dryRun : {FALSE},
   build : [enabled : {FALSE}],
   backup : [enabled : {FALSE}, retention : {1}],
   secrets : [productionThemeId : {2},
              slackWebhookUrl : {NoUrl}, msTeamsWebhookUrl : {NoUrl}],
   deploy : [allowLivePush : {TRUE}, ignoreJsonOnProd : {FALSE},
             pushDefaultLocale : {FALSE}],
   push : [nodelete : {FALSE}],
   versioning : [enabled : {TRUE}, format : Formats, source : {"theme"},
                 start : StartVersions]]

TagInit ==
  /\ themes \in TagStores
  /\ nextId = 50
  /\ now = 2
  /\ config \in TagConfigs
  /\ pc = "start"
  /\ calls = <<>>
  /\ reads = {}
  /\ d = NoLocals
  /\ error = NoError

TagNext ==
  \/ Start
  \/ Build
  \/ ResolveTarget
  \/ PushAll
  \/ RenameThemeWithVersion
  \/ RenameTheme
  \/ BuildResult
  \/ Redeploy

TagSpec == TagInit /\ [][TagNext]_vars

\* ------------------------------------- a store that others change as well
\* One deployment against a store that holds the published theme, two
\* backups and other themes, few or enough to meet the cap, while somebody
\* else publishes one of the backups at some moment.
ExternalStores ==
  {{Theme(1, ProdName, "main", 2, FALSE),
    Theme(2, backupNameAt(0), "unpublished", 0, FALSE),
    Theme(3, backupNameAt(TicksPerMinute), "unpublished", 1, FALSE)}
     \cup {Theme(FirstFiller + i, OtherName, "unpublished", 0, FALSE) : i \in 0..(f - 1)}
     : f \in {1, maxThemes - 3}}

ExternalConfigs ==
  [dryRun : {FALSE},
   build : [enabled : {FALSE}],
   backup : [enabled : {TRUE}, retention : {1}],
   secrets : [productionThemeId : {FirstFiller},
              slackWebhookUrl : {NoUrl}, msTeamsWebhookUrl : {NoUrl}],
   deploy : [allowLivePush : {FALSE}, ignoreJsonOnProd : {FALSE}],
   push : [nodelete : {FALSE}],
   versioning : [enabled : {FALSE}, format : {"X.XX.XX"}, source : {"theme"},
                 start : {NoVersion}]]

ExternalInit ==
  /\ themes \in ExternalStores
  /\ nextId = 50
  /\ now = MaxSpecial + 1
  /\ config \in ExternalConfigs
  /\ pc = "start"
  /\ calls = <<>>
  /\ reads = {}
  /\ d = NoLocals
  /\ error = NoError

\* Somebody publishes a backup in the store's admin: it takes the role
\* 'main' and the theme that had it becomes unpublished.  It happens at
\* most once, while theme 1 is still the published one.
ExternalPublish ==
  /\ \E t \in themes :
       /\ isBackup(t)
       /\ \E m \in themes :
            /\ m.id = 1
            /\ m.role = "main"
            /\ themes' = (themes \ {t, m})
                            \cup {[t EXCEPT !.role = "main"], [m EXCEPT !.role = "unpublished"]}
  /\ UNCHANGED <<nextId, now, config, pc, calls, reads, d, error>>

ExternalNext ==
  \/ Start
  \/ Build
  \/ EnsureThemeCapacity
  \/ EnsureThemeCapacityCleanup
  \/ EnsureThemeCapacityDelete
  \/ CreateBackup
  \/ DuplicateThemePull
  \/ DuplicateThemePush
  \/ DuplicateThemeFind
  \/ WaitForThemeProcessing
  \/ ProcessingCompletes
  \/ CleanupBackups
  \/ CleanupBackupsDelete
  \/ ResolveTarget
  \/ PushAll
  \/ BuildResult
  \/ ExternalPublish

ExternalSpec == ExternalInit /\ [][ExternalNext]_vars

\* ------------------------------------------------ overlapping deployments
\* Two invocations of productionDeploy against one store, as two workflow
\* runs that overlap.  Every await of a remote call is a point where the
\* other invocation may run: the invocation that is not running is parked
\* with its position, its locals and its error, and Switch exchanges the
\* two.  The store, the clock and the log of calls are shared.
NoParked == [pc |-> "none"]
Parked(p, locals, e) == [pc |-> p, d |-> locals, error |-> e]
RaceLocals(parked) ==
  [f \in DOMAIN NoLocals \cup {"parked"} |->
     IF f = "parked" THEN parked ELSE NoLocals[f]]

RaceStores ==
  {{Theme(1, ProdName, "main", 1, FALSE)}
     \cup {Theme(FirstFiller + i, OtherName, "unpublished", 0, FALSE) : i \in 0..(f - 1)}
     : f \in (maxThemes - 3)..(maxThemes - 1)}

RaceConfigs ==
  [dryRun : {FALSE},
   build : [enabled : {FALSE}],
   backup : [enabled : {TRUE}, retention : {1}],
   secrets : [productionThemeId : {FirstFiller},
              slackWebhookUrl : {NoUrl}, msTeamsWebhookUrl : {NoUrl}],
   deploy : [allowLivePush : {FALSE}, ignoreJsonOnProd : {FALSE}],
   push : [nodelete : {FALSE}],
   versioning : [enabled : {FALSE}, format : {"X.XX.XX"}, source : {"theme"},
                 start : {NoVersion}]]

RaceInit ==
  /\ themes \in RaceStores
  /\ nextId = 50
  /\ now = MaxSpecial + 1
  /\ config \in RaceConfigs
  /\ pc = "start"
  /\ calls = <<>>
  /\ reads = {}
  /\ d = RaceLocals(Parked("start", RaceLocals(NoParked), NoError))
  /\ error = NoError

\* The running invocation waits on a remote call and the other one runs.
Switch ==
  /\ d.parked # NoParked
  /\ pc' = d.parked.pc
  /\ error' = d.parked.error
  /\ d' = [d.parked.d EXCEPT
             !.parked = Parked(pc, [d EXCEPT !.parked = NoParked], error)]
  /\ UNCHANGED <<themes, nextId, now, config, calls, reads>>

RaceNext ==
  \/ Start
  \/ Build
  \/ EnsureThemeCapacity
  \/ EnsureThemeCapacityCleanup
  \/ EnsureThemeCapacityDelete
  \/ CreateBackup
  \/ DuplicateThemePull
  \/ DuplicateThemePush
  \/ DuplicateThemeFind
  \/ WaitForThemeProcessing
  \/ ProcessingCompletes
  \/ CleanupBackups
  \/ CleanupBackupsDelete
  \/ ResolveTarget
  \/ PushAll
  \/ BuildResult
  \/ Switch

RaceSpec == RaceInit /\ [][RaceNext]_vars

\* ------------------------------------------------- the version engine alone
\* bumpVersion applied to a tag over and over, as successive deployments of
\* one target apply it.  d holds the arguments, the tags produced so far and
\* the number of warnings logged.
Components == (0..EdgeWidth) \cup {9, 10} \cup ((99 - EdgeWidth)..99)

\* Tags as the engine writes them under any of its formats, and no tag.
VersionInputs ==
  {NoVersion} \cup {formatVersion(a, b, c, f) : a \in Components, b \in Components,
                                                c \in Components, f \in Formats}

BumpInit ==
  /\ themes = {}
  /\ nextId = 50
  /\ now = 0
  /\ config \in {[versioning |-> [enabled |-> TRUE, format |-> f, start |-> NoVersion]]
                   : f \in Formats}
  /\ pc = "bumpVersion"
  /\ calls = <<>>
  /\ reads = {}
  /\ d \in {[currentVersion |-> v, tags |-> <<v>>, warnings |-> 0] : v \in VersionInputs}
  /\ error = NoError

BumpVersion ==
  /\ pc = "bumpVersion"
  /\ Len(d.tags) <= MaxBumps
  /\ LET newVersion == bumpVersion(d.currentVersion, config.versioning.format)
     IN  d' = [currentVersion |-> newVersion,
               tags |-> Append(d.tags, newVersion),
               warnings |-> IF bumpVersionWarns(d.currentVersion, config.versioning.format)
                            THEN d.warnings + 1 ELSE d.warnings]
  /\ UNCHANGED <<themes, nextId, now, config, pc, calls, reads, error>>

BumpNext == BumpVersion

BumpSpec == BumpInit /\ [][BumpNext]_vars

\* ---------------------------------------------------------- withRetry alone
\* One call of withRetry: config holds the merged options, d the loop's
\* locals, the outcome of every call of fn and every delay slept; now is the
\* clock in milliseconds.
RECURSIVE Pow(_, _)
Pow(b, e) == IF e = 0 THEN 1 ELSE b * Pow(b, e - 1)

Min(a, b) == IF a < b THEN a ELSE b

RetryOptions ==
  [retries : 0..MaxRetries, initialDelay : {1000, 2000}, maxDelay : {3000, 30000},
   backoffMultiplier : {2, 3}]

\* What one call of fn does: it returns, or throws an error that shouldRetry
\* accepts or one it rejects.
FnOutcomes == {"returns", "retryable", "fatal"}

\* a backoff that starts one step ahead
retryDelay_FromOne(opts, attempt) ==
  Min(opts.initialDelay * Pow(opts.backoffMultiplier, attempt + 1), opts.maxDelay)

retryDelay(opts, attempt) ==
  Min(opts.initialDelay * Pow(opts.backoffMultiplier, attempt), opts.maxDelay)

\* The error object a call of fn throws: its kind and the attempt that threw it.
NoThrown == [kind |-> "none", attempt |-> -1]
ErrorOf(outcome, attempt) == [kind |-> outcome, attempt |-> attempt]

RetryInit ==
  /\ themes = {}
  /\ nextId = 50
  /\ now = 0
  /\ config \in RetryOptions
  /\ pc = "withRetry"
  /\ calls = <<>>
  /\ reads = {}
  /\ d = [attempt |-> 0, outcomes |-> <<>>, delays |-> <<>>, delay |-> 0,
          result |-> "none", thrown |-> NoThrown]
  /\ error = NoError

\* a loop that gives up one attempt early
shouldThrow_OneShort(opts, attempt, outcome) ==
  attempt + 1 >= opts.retries \/ outcome = "fatal"

\* a loop that retries whatever the error is
shouldThrow_RetryAll(opts, attempt, outcome) == attempt = opts.retries

\* attempt === opts.retries || !opts.shouldRetry(error)
shouldThrow(opts, attempt, outcome) ==
  attempt = opts.retries \/ outcome = "fatal"

\* One pass of the loop body up to the sleep.
WithRetryAttempt ==
  /\ pc = "withRetry"
  /\ d.attempt <= config.retries
  /\ \E outcome \in FnOutcomes :
       IF outcome = "returns"
       THEN /\ d' = [d EXCEPT !.outcomes = Append(@, outcome), !.result = "value"]
            /\ pc' = "returned"
            /\ UNCHANGED error
       ELSE IF shouldThrow(config, d.attempt, outcome)
       THEN /\ d' = [d EXCEPT !.outcomes = Append(@, outcome),
                              !.thrown = ErrorOf(outcome, d.attempt)]
            /\ pc' = "threw"
            /\ error' = [stage |-> "withRetry", message |-> outcome,
                         failedStage |-> Undefined]
       ELSE /\ d' = [d EXCEPT !.outcomes = Append(@, outcome),
                              !.delay = retryDelay(config, d.attempt),
                              !.delays = Append(@, retryDelay(config, d.attempt))]
            /\ pc' = "sleep"
            /\ UNCHANGED error
  /\ UNCHANGED <<themes, nextId, now, config, calls, reads>>

\* sleep(delay), then the next pass
WithRetrySleep ==
  /\ pc = "sleep"
  /\ now' = now + d.delay
  /\ d' = [d EXCEPT !.attempt = @ + 1]
  /\ pc' = "withRetry"
  /\ UNCHANGED <<themes, nextId, config, calls, reads, error>>

RetryNext ==
  \/ WithRetryAttempt
  \/ WithRetrySleep

RetrySpec == RetryInit /\ [][RetryNext]_vars

\* ------------------------------------- the remote calls of a deployment
\* The remote calls one deployment issues, in the order its stages issue
\* them: the capacity check lists and deletes, the backup reads the
\* published theme and duplicates it, the target is read by id, the files
\* are pushed and the target is renamed.
RemoteCalls ==
  <<"list", "delete", "get-published", "duplicate", "get-by-id", "push", "rename">>

DEFAULT_OPTIONS ==
  [wrapped |-> TRUE, retries |-> 3, initialDelay |-> 1000, maxDelay |-> 30000,
   backoffMultiplier |-> 2]
\* What surrounds the exec of each call: listThemes, which also serves
\* getLiveTheme and decides getThemeById when `theme info` yields nothing, and
\* pushThemeFiles pass their exec to withRetry; deleteTheme, duplicateTheme
\* and renameTheme call exec directly.
callSite(call) ==
  IF call \in {"list", "get-published", "get-by-id"}
  THEN [DEFAULT_OPTIONS EXCEPT !.retries = 3]
  ELSE IF call = "push"
  THEN [DEFAULT_OPTIONS EXCEPT !.retries = 3, !.initialDelay = 2000]
  ELSE [wrapped |-> FALSE]

Entry(call) == IF callSite(call).wrapped THEN "withRetry" ELSE "exec"
NewCall(idx) ==
  [idx |-> idx, attempt |-> 0, outcomes |-> <<>>, delays |-> <<>>, delay |-> 0,
   result |-> "none", thrown |-> NoThrown]

RemoteInit ==
  /\ themes = {}
  /\ nextId = 50
  /\ now = 0
  /\ config = callSite(RemoteCalls[1])
  /\ pc = Entry(RemoteCalls[1])
  /\ calls = <<>>
  /\ reads = {}
  /\ d = NewCall(1)
  /\ error = NoError

\* An exec that is not passed to withRetry: one attempt, and its error goes
\* to the caller. renameTheme catches the error of `theme rename`, runs
\* `theme info` once in its place and returns with a warning if that passes.
Exec ==
  /\ pc = "exec"
  /\ \E outcome \in FnOutcomes :
       IF outcome = "returns"
       THEN /\ d' = [d EXCEPT !.outcomes = Append(@, outcome), !.result = "value"]
            /\ pc' = "returned"
            /\ UNCHANGED error
       ELSE IF RemoteCalls[d.idx] = "rename"
       THEN \E info \in FnOutcomes :
              IF info = "returns"
              THEN /\ d' = [d EXCEPT !.outcomes = Append(@, outcome), !.result = "warned"]
                   /\ pc' = "returned"
                   /\ UNCHANGED error
              ELSE /\ d' = [d EXCEPT !.outcomes = Append(@, outcome),
                                     !.thrown = ErrorOf(info, 0)]
                   /\ pc' = "threw"
                   /\ error' = [stage |-> "exec", message |-> info,
                                failedStage |-> Undefined]
       ELSE /\ d' = [d EXCEPT !.outcomes = Append(@, outcome),
                              !.thrown = ErrorOf(outcome, 0)]
            /\ pc' = "threw"
            /\ error' = [stage |-> "exec", message |-> outcome,
                         failedStage |-> Undefined]
  /\ UNCHANGED <<themes, nextId, now, config, calls, reads>>

\* The call returned and the deployment goes on to its next remote call.
NextCall ==
  /\ pc = "returned"
  /\ d.idx < Len(RemoteCalls)
  /\ calls' = Append(calls, CallWith(RemoteCalls[d.idx], NoId, TRUE,
                                     [attempts |-> Len(d.outcomes)]))
  /\ d' = NewCall(d.idx + 1)
  /\ config' = callSite(RemoteCalls[d.idx + 1])
  /\ pc' = Entry(RemoteCalls[d.idx + 1])
  /\ UNCHANGED <<themes, nextId, now, reads, error>>

RemoteNext ==
  \/ WithRetryAttempt
  \/ WithRetrySleep
  \/ Exec
  \/ NextCall

RemoteSpec == RemoteInit /\ [][RemoteNext]_vars

\* ---------------------------------------------------------- pollUntil alone
\* One call of pollUntil: config holds its options, in seconds, d the start
\* time, the outcome of every call of conditionFn and the time the last one
\* took; now is the clock.  A call of conditionFn is awaited and takes time.
PollOptions ==
  [interval : {5}, timeout : {10, 11, 12}, message : {"Waiting for theme"}]

ConditionOutcomes == {"truthy", "falsy", "throws"}

TimeoutError(opts) == [kind |-> "Timeout", seconds |-> opts.timeout, message |-> opts.message]

\* a poll loop that never looks at the deadline before it sleeps
aboutToTimeout_Never(elapsed, opts) == FALSE

\* Date.now() - startTime + interval > timeout
aboutToTimeout(elapsed, opts) == elapsed + opts.interval > opts.timeout

PollInit ==
  /\ themes = {}
  /\ nextId = 50
  /\ now \in {0, 7}
  /\ config \in PollOptions
  /\ pc = "pollUntil"
  /\ calls = <<>>
  /\ reads = {}
  /\ d = [startTime |-> now, outcomes |-> <<>>, cost |-> 0, result |-> NoThrown,
          thrown |-> NoThrown]
  /\ error = NoError

\* a loop body that lets the error of conditionFn out
PollUntilPoll_Surface ==
  /\ pc = "pollUntil"
  /\ IF now - d.startTime < config.timeout
     THEN \E outcome \in ConditionOutcomes, cost \in 0..MaxCost :
            /\ now' = now + cost
            /\ IF outcome = "truthy"
               THEN /\ d' = [d EXCEPT !.outcomes = Append(@, outcome), !.cost = cost,
                                      !.result = ErrorOf(outcome, Len(d.outcomes))]
                    /\ pc' = "returned"
               ELSE IF outcome = "throws"
               THEN /\ d' = [d EXCEPT !.outcomes = Append(@, outcome), !.cost = cost,
                                      !.thrown = ErrorOf(outcome, Len(d.outcomes))]
                    /\ pc' = "threw"
               ELSE IF aboutToTimeout(now' - d.startTime, config)
               THEN /\ d' = [d EXCEPT !.outcomes = Append(@, outcome), !.cost = cost,
                                      !.thrown = TimeoutError(config)]
                    /\ pc' = "threw"
               ELSE /\ d' = [d EXCEPT !.outcomes = Append(@, outcome), !.cost = cost]
                    /\ pc' = "sleep"
     ELSE /\ d' = [d EXCEPT !.thrown = TimeoutError(config)]
          /\ pc' = "threw"
          /\ UNCHANGED now
  /\ UNCHANGED <<themes, nextId, config, calls, reads, error>>

\* One pass of the while loop up to the sleep: the loop condition, the call
\* of conditionFn, whose error is swallowed, and the look at the deadline.
PollUntilPoll ==
  /\ pc = "pollUntil"
  /\ IF now - d.startTime < config.timeout
     THEN \E outcome \in ConditionOutcomes, cost \in 0..MaxCost :
            /\ now' = now + cost
            /\ IF outcome = "truthy"
               THEN /\ d' = [d EXCEPT !.outcomes = Append(@, outcome), !.cost = cost,
                                      !.result = ErrorOf(outcome, Len(d.outcomes))]
                    /\ pc' = "returned"
               ELSE IF aboutToTimeout(now' - d.startTime, config)
               THEN /\ d' = [d EXCEPT !.outcomes = Append(@, outcome), !.cost = cost,
                                      !.thrown = TimeoutError(config)]
                    /\ pc' = "threw"
               ELSE /\ d' = [d EXCEPT !.outcomes = Append(@, outcome), !.cost = cost]
                    /\ pc' = "sleep"
     ELSE /\ d' = [d EXCEPT !.thrown = TimeoutError(config)]
          /\ pc' = "threw"
          /\ UNCHANGED now
  /\ UNCHANGED <<themes, nextId, config, calls, reads, error>>

\* sleep(interval), then the next pass
PollUntilSleep ==
  /\ pc = "sleep"
  /\ now' = now + config.interval
  /\ pc' = "pollUntil"
  /\ UNCHANGED <<themes, nextId, config, calls, reads, d, error>>

PollNext ==
  \/ PollUntilPoll
  \/ PollUntilSleep

PollSpec == PollInit /\ [][PollNext]_vars

\* ================================================================= claims
\* Notions of the specification, stated independently of the code's filters.
PrefixMatches(S) == {t \in S : StartsWith(t.name, prefix)}
Eligible(S) == {t \in S : StartsWith(t.name, prefix) /\ ~IsPublished(t)}
Oldest(S) == CHOOSE t \in S : \A u \in S : t.created_at <= u.created_at
OldestN(S, k) == Range(SubSeq(SortByCreatedAt(S), 1, k))

CallIdx(op) == {i \in DOMAIN calls : calls[i].op = op}
CreateIssuedBefore(i) == \E j \in CallIdx("create") : j < i
CapacityDeletes == {i \in CallIdx("delete") : ~CreateIssuedBefore(i)}
RetentionDeletes == {i \in CallIdx("delete") : CreateIssuedBefore(i)}
PastCleanup == pc \in {"resolve", "pushA", "pushB", "pushAll", "version", "rename",
                       "result", "done"}

\* C1: no delete call is ever issued for a theme that is published when the
\* call is issued, in retention cleanup or in capacity enforcement.
C1_NeverDeletePublished ==
  \A i \in CallIdx("delete") : ~calls[i].published

\* C2: no push call is issued to a target that is published unless the
\* live-push allow-flag is set, however the target was resolved.
C2_NoLivePushWithoutFlag ==
  \A i \in CallIdx("push") : calls[i].published => config.deploy.allowLivePush

\* C3: when the deployment fails with the live-push safety violation, no remote
\* call of any kind has been issued in the invocation.
C3_ViolationBeforeAnyCall ==
  (pc = "failed" /\ error.message = "deploy.allow_live_push is false")
    => (calls = <<>> /\ reads = {})

\* C4: after every theme-creating call the store holds at most maxThemes themes.
C4_CapAfterCreate ==
  (CallIdx("create") # {}) => Cardinality(themes) <= maxThemes

\* C4 witness: a backup was created in a store that was at the cap, after one
\* backup had been evicted.
C4_Witness ==
  /\ d.capacity.current = maxThemes
  /\ \E i \in CallIdx("create") : calls[i].ok
  /\ Cardinality(themes) = maxThemes

\* C5: when cleanup returns and every deletion it issued succeeded, the deleted
\* themes are none when n <= retention and the n - retention oldest eligible
\* backups otherwise, n being the number of eligible backups it listed.
C5_RetentionDeletesOldest ==
  (PastCleanup /\ config.backup.enabled /\ \A i \in RetentionDeletes : calls[i].ok)
    => LET n == Cardinality(Eligible(d.listing))
           r == config.backup.retention
       IN  Range(d.deleted) =
             IF n <= r THEN {} ELSE OldestN(Eligible(d.listing), n - r)

\* C6: when the oldest prefix-matching theme that retention would select is the
\* published theme, it is not deleted and the deployment does not continue
\* past cleanup.
C6_AbortWhenOldestIsPublished ==
  (/\ d.listing # {}
   /\ Cardinality(PrefixMatches(d.listing)) > config.backup.retention
   /\ IsPublished(Oldest(PrefixMatches(d.listing))))
    => (/\ ~PastCleanup
        /\ \A i \in CallIdx("delete") : calls[i].id # Oldest(PrefixMatches(d.listing)).id)

\* C7: at the cap with an eligible backup, every delete issued before the
\* theme-creating call targets the oldest eligible backup, and the creating
\* call is preceded by exactly that one delete.
C7_EvictOldestBeforeCreate ==
  (d.capacity.current = maxThemes /\ Eligible(d.capListing) # {})
    => (/\ \A i \in CapacityDeletes : calls[i].id = Oldest(Eligible(d.capListing)).id
        /\ \A i \in CallIdx("create") :
             i = 2 /\ calls[1].op = "delete" /\ calls[1].ok)

\* C8: while the store is at the cap with no eligible backup, the deployment
\* issues no delete and no create call and never reaches createBackup.
C8_CapacityExhausted ==
  (/\ config.backup.enabled
   /\ Cardinality(themes) = maxThemes
   /\ Eligible(themes) = {}
   /\ \A i \in DOMAIN calls : ~calls[i].ok)
    => (/\ calls = <<>>
        /\ pc \in {"start", "build", "capacity", "capacity_cleanup", "capacity_delete",
                   "failed", "done"})

\* The stage a position of productionDeploy belongs to.
Stage(p) ==
  IF p \in {"start", "build"} THEN "Build"
  ELSE IF p \in {"capacity", "capacity_cleanup", "capacity_delete", "backup", "dup_pull",
                 "dup_push", "dup_find", "wait"} THEN "Backup"
  ELSE IF p \in {"cleanup", "cleanup_delete"} THEN "RetentionCleanup"
  ELSE IF p = "resolve" THEN "ResolveTarget"
  ELSE IF p \in {"pushA", "pushAll"} THEN "PushPhaseA"
  ELSE IF p = "pushB" THEN "PushPhaseB"
  ELSE IF p \in {"version", "rename"} THEN "Version"
  ELSE IF p = "result" THEN "BuildResult"
  ELSE "End"

Position(order, stage) == CHOOSE i \in DOMAIN order : order[i] = stage

SpecOrder == <<"Build", "ResolveTarget", "Backup", "RetentionCleanup", "PushPhaseA",
               "PushPhaseB", "Version", "BuildResult", "End">>

CodeOrder == <<"Build", "Backup", "RetentionCleanup", "ResolveTarget", "PushPhaseA",
               "PushPhaseB", "Version", "BuildResult", "End">>

RaisedIn(stage) ==
  CASE stage = "Build" -> {"build failed"}
    [] stage = "Backup" ->
         {"list failed", "Theme limit reached and no backups to clean up",
          "No deletable backups found to make space", "delete failed",
          "No live theme found to backup", "pull failed", "push failed",
          "Failed to find newly created backup theme",
          "Timeout waiting for theme to finish processing"}
    [] stage = "RetentionCleanup" -> {"list failed"}
    [] stage = "ResolveTarget" ->
         {"list failed", "Production theme not found", "No live theme found",
          "deploy.allow_live_push is false"}
    [] stage \in {"PushPhaseA", "PushPhaseB"} -> {"push failed"}
    [] stage = "Version" -> {"list failed", "Theme not found", "rename failed"}
    [] OTHER -> {}

Bumps == 1..(Len(d.tags) - 1)
Numbers(version) == parseVersion(version)
AtMaximum(version) == Numbers(version) = [major |-> 99, minor |-> 99, patch |-> 99]

\* The carry rule of the claims: patch + 1, carried into minor at 100, and
\* from minor into major at 100.
Carry(v) ==
  IF v.patch + 1 < 100 THEN [major |-> v.major, minor |-> v.minor, patch |-> v.patch + 1]
  ELSE IF v.minor + 1 < 100 THEN [major |-> v.major, minor |-> v.minor + 1, patch |-> 0]
  ELSE [major |-> v.major + 1, minor |-> 0, patch |-> 0]

\* The two bumps the claim quotes, under X.XX.XX.
QuotedRollovers(i) ==
  config.versioning.format = "X.XX.XX" =>
    /\ d.tags[i] = <<"0", ".", "0", ".", "9", "9">>
         => d.tags[i + 1] = <<"0", ".", "0", "1", ".", "0", "0">>
    /\ d.tags[i] = <<"0", ".", "9", "9", ".", "9", "9">>
         => d.tags[i + 1] = <<"1", ".", "0", "0", ".", "0", "0">>

\* C12 as stated: every bump of a tag gives a strictly greater tag, so no tag
\* of a sequence of bumps is lower than an earlier one or equal to it.
C12_BumpStrictlyGreater ==
  /\ \A i \in Bumps : d.tags[i] # NoVersion
                         => compareVersions(d.tags[i], d.tags[i + 1]) = -1
  /\ \A i, j \in 1..Len(d.tags) :
       (i < j /\ d.tags[i] # NoVersion) => compareVersions(d.tags[i], d.tags[j]) = -1

\* C12 amended: every bump of a tag other than 99.99.99 gives a strictly
\* greater tag; bumps that do not pass 99.99.99 never lower or reuse a tag.
C12_BumpGreaterBelowMaximum ==
  /\ \A i \in Bumps : (d.tags[i] # NoVersion /\ ~AtMaximum(d.tags[i]))
                         => compareVersions(d.tags[i], d.tags[i + 1]) = -1
  /\ \A i, j \in 1..Len(d.tags) :
       (i < j /\ d.tags[i] # NoVersion /\ \A k \in i..(j - 1) : ~AtMaximum(d.tags[k]))
         => compareVersions(d.tags[i], d.tags[j]) = -1

\* C12 witness: two bumps from 0.99.98, the second carrying into major.
C12_Witness ==
  /\ Len(d.tags) = 3
  /\ Numbers(d.tags[1]) = [major |-> 0, minor |-> 99, patch |-> 98]
  /\ Numbers(d.tags[3]) = [major |-> 1, minor |-> 0, patch |-> 0]

\* C13 as stated: a bump adds 1 to patch, a patch of 100 becomes 0 and adds 1
\* to minor, a minor of 100 becomes 0 and adds 1 to major; 0.0.99 gives
\* 0.01.00 and 0.99.99 gives 1.00.00 under X.XX.XX.
C13_BumpCarries ==
  \A i \in Bumps :
    d.tags[i] # NoVersion
      => /\ Numbers(d.tags[i + 1]) = Carry(Numbers(d.tags[i]))
         /\ QuotedRollovers(i)

\* C13 amended: the same, unless major thereby reaches 100 (the bump of
\* 99.99.99), where the result is the zero form instead.
C13_BumpCarriesBelowMaximum ==
  \A i \in Bumps :
    (d.tags[i] # NoVersion /\ Carry(Numbers(d.tags[i])).major < 100)
      => /\ Numbers(d.tags[i + 1]) = Carry(Numbers(d.tags[i]))
         /\ d.tags[i + 1] = formatVersion(Carry(Numbers(d.tags[i])).major,
                                          Carry(Numbers(d.tags[i])).minor,
                                          Carry(Numbers(d.tags[i])).patch,
                                          config.versioning.format)
         /\ QuotedRollovers(i)

\* C13 witness: 0.0.99 was bumped to 0.01.00 and that to 0.01.01.
C13_Witness ==
  /\ Len(d.tags) = 3
  /\ d.tags[1] = <<"0", ".", "0", ".", "9", "9">>
  /\ d.tags[2] = <<"0", ".", "0", "1", ".", "0", "0">>
  /\ d.tags[3] = <<"0", ".", "0", "1", ".", "0", "1">>

\* The zero forms the claim names, written out.
NamedZeroForm ==
  CASE config.versioning.format = "X.X.X" -> <<"0", ".", "0", ".", "1">>
    [] config.versioning.format = "X.X.XX" -> <<"0", ".", "0", ".", "0", "1">>
    [] OTHER -> <<"0", ".", "0", "0", ".", "0", "1">>

Overflows == {i \in Bumps : /\ d.tags[i] # NoVersion
                             /\ Carry(Numbers(d.tags[i])).major >= 100}

Target == d.productionTheme.id
TagOf(name) == extractVersion(name).version
\* The version stage has renamed the target: its rename is the last call.
Renamed == /\ calls # <<>>
           /\ calls[Len(calls)].op = "rename"
           /\ calls[Len(calls)].ok
\* The bump of a tag as the claims describe it.
ExpectedBump(tag) ==
  LET c == Carry(Numbers(tag))
  IN  IF c.major >= 100 THEN NamedZeroForm
      ELSE formatVersion(c.major, c.minor, c.patch, config.versioning.format)

C16_ReleaseVersionVerbatim ==
  (Renamed /\ config.versioning.source = "release" /\ d.releaseVersion # NoVersion)
    => TagOf(ThemeById(Target).name) = d.releaseVersion

\* ------------------------------------------------------------ push claims
\* The pushes to the target, in order; in a selective push the first is
\* Phase A and the second Phase B.
PhaseB == {j \in CallIdx("push") : \E i \in CallIdx("push") : i < j}
PhaseA == {i \in CallIdx("push") : config.deploy.ignoreJsonOnProd /\ i \notin PhaseB}

\* C17: the Phase B push names the two default-locale files, no more and no
\* fewer, and has remote deletion disabled, whatever push.nodelete is.
C17_PhaseBArguments ==
  \A j \in PhaseB :
    /\ calls[j].args.only = {"locales/en.default.json", "locales/en.default.schema.json"}
    /\ calls[j].args.ignore = {}
    /\ calls[j].args.nodelete = TRUE

\* C17 witness: Phase B was issued in a deployment whose push.nodelete is off.
C17_Witness ==
  /\ PhaseB # {}
  /\ ~config.push.nodelete
  /\ \E i \in PhaseA : ~calls[i].args.nodelete

\* C18: with ignoreJsonOnProd on and pushDefaultLocale off a deployment
\* issues one push, Phase A, and no Phase B.
C18_NoPhaseBWhenToggledOff ==
  (config.deploy.ignoreJsonOnProd /\ ~config.deploy.pushDefaultLocale)
    => /\ PhaseB = {}
       /\ pc = "done" => Cardinality(CallIdx("push")) = 1

\* Files of a theme, as directories, base name and extension, and the glob
\* patterns of the push options read the same way: "*" stands for any base
\* name or any one directory, "**" for any number of directories.
File(dirs, base, ext) == [dirs |-> dirs, base |-> base, ext |-> ext]

Files ==
  {File(<<"layout">>, "theme", "liquid"),
   File(<<"assets">>, "app", "js"),
   File(<<"templates">>, "index", "json"),
   File(<<"templates">>, "page", "liquid"),
   File(<<"templates", "customers">>, "login", "json"),
   File(<<"sections">>, "header", "liquid"),
   File(<<"sections">>, "footer-group", "json"),
   File(<<"snippets">>, "icons", "json"),
   File(<<"blocks">>, "text", "json"),
   File(<<"config">>, "settings_data", "json"),
   File(<<"config">>, "settings_schema", "json"),
   File(<<"locales">>, "en.default", "json"),
   File(<<"locales">>, "en.default.schema", "json"),
   File(<<"locales">>, "fr", "json")}

Glob(pattern) ==
  CASE pattern = "templates/*.json" -> File(<<"templates">>, "*", "json")
    [] pattern = "templates/**/*.json" -> File(<<"templates", "**">>, "*", "json")
    [] pattern = "sections/*.json" -> File(<<"sections">>, "*", "json")
    [] pattern = "snippets/*.json" -> File(<<"snippets">>, "*", "json")
    [] pattern = "blocks/*.json" -> File(<<"blocks">>, "*", "json")
    [] pattern = "config/settings_data.json" -> File(<<"config">>, "settings_data", "json")
    [] pattern = "locales/*.json" -> File(<<"locales">>, "*", "json")
    [] pattern = "locales/en.default.json" -> File(<<"locales">>, "en.default", "json")
    [] pattern = "locales/en.default.schema.json"
         -> File(<<"locales">>, "en.default.schema", "json")

RECURSIVE MatchDirs(_, _)
MatchDirs(pd, fd) ==
  IF pd = <<>> THEN fd = <<>>
  ELSE IF Head(pd) = "**"
  THEN MatchDirs(Tail(pd), fd) \/ (fd # <<>> /\ MatchDirs(pd, Tail(fd)))
  ELSE /\ fd # <<>>
       /\ Head(pd) = "*" \/ Head(pd) = Head(fd)
       /\ MatchDirs(Tail(pd), Tail(fd))

Matches(g, f) == /\ MatchDirs(g.dirs, f.dirs)
                 /\ g.base = "*" \/ g.base = f.base
                 /\ g.ext = f.ext

Matched(patterns) == {f \in Files : \E q \in patterns : Matches(Glob(q), f)}

\* The files one push call uploads: those `only` names, or all when it names
\* none, except those `ignore` matches.
FilesPushed(args) ==
  {f \in Files : /\ args.only = {} \/ f \in Matched(args.only)
                 /\ f \notin Matched(args.ignore)}

\* C19 as stated: the files Phase B pushes and the files Phase A's ignore
\* list matches have no file in common.
C19_PhaseBDisjointFromIgnored ==
  \A i \in PhaseA, j \in PhaseB :
    FilesPushed(calls[j].args) \cap Matched(calls[i].args.ignore) = {}

\* C19 amended: every file Phase B pushes is matched by Phase A's ignore
\* list, so the files Phase B pushes and the files Phase A pushes have no
\* file in common.
C19_PhaseBDisjointFromPhaseA ==
  \A i \in PhaseA, j \in PhaseB :
    /\ FilesPushed(calls[j].args) # {}
    /\ FilesPushed(calls[j].args) \subseteq Matched(calls[i].args.ignore)
    /\ FilesPushed(calls[j].args) \cap FilesPushed(calls[i].args) = {}

\* C19 witness: both phases of a selective push were issued and succeeded.
C19_Witness ==
  /\ PhaseA # {}
  /\ PhaseB # {}
  /\ \A i \in CallIdx("push") : calls[i].ok

\* ----------------------------------------------------------- retry claims
Failures == {i \in DOMAIN d.outcomes : d.outcomes[i] # "returns"}
RECURSIVE Sum(_)
Sum(seq) == IF seq = <<>> THEN 0 ELSE Head(seq) + Sum(Tail(seq))
\* The wait the claim gives for the retry after the i-th failure, i from 0.
ClaimedWait(i) ==
  LET grown == config.initialDelay * Pow(config.backoffMultiplier, i)
  IN  IF grown <= config.maxDelay THEN grown ELSE config.maxDelay

\* C20: when fn fails k <= retries times with a retryable error and then
\* succeeds, withRetry returns the value after k retries, having waited
\* min(initialDelay * multiplier^i, maxDelay) after the i-th failure; it
\* throws only on a rejected error or on failure number retries + 1.
C20_RetryDeterminism ==
  /\ pc = "returned"
       => /\ d.result = "value"
          /\ Cardinality(Failures) <= config.retries
          /\ d.attempt = Cardinality(Failures)
          /\ Len(d.outcomes) = Cardinality(Failures) + 1
          /\ Len(d.delays) = Cardinality(Failures)
          /\ \A i \in 0..(Cardinality(Failures) - 1) : d.delays[i + 1] = ClaimedWait(i)
          /\ now = Sum(d.delays)
  /\ pc = "threw"
       => \/ d.outcomes[Len(d.outcomes)] = "fatal"
          \/ Cardinality(Failures) = config.retries + 1

\* C20 witness: three retryable failures, then success, the third wait cut
\* to maxDelay.
C20_Witness ==
  /\ pc = "returned"
  /\ d.outcomes = <<"retryable", "retryable", "retryable", "returns">>
  /\ config.initialDelay = 1000
  /\ config.backoffMultiplier = 2
  /\ config.maxDelay = 3000
  /\ d.delays = <<1000, 2000, 3000>>

\* C21: when every call of fn fails with a retryable error, fn is called
\* retries + 1 times and withRetry throws the error of the last call.
C21_ExhaustedRetries ==
  (Failures # {} /\ \A i \in DOMAIN d.outcomes : d.outcomes[i] = "retryable")
    => /\ Len(d.outcomes) <= config.retries + 1
       /\ pc = "threw" <=> Len(d.outcomes) = config.retries + 1
       /\ pc = "threw" => /\ d.thrown = ErrorOf("retryable", config.retries)
                           /\ Len(d.delays) = config.retries
       /\ pc # "returned"

\* C21 witness: with three retries, four retryable failures and the throw.
C21_Witness ==
  /\ pc = "threw"
  /\ config.retries = 3
  /\ d.outcomes = <<"retryable", "retryable", "retryable", "retryable">>
  /\ d.thrown.attempt = 3

\* C22: a failure the policy rejects is the last call of fn: withRetry throws
\* that error without a wait after it, whatever retries remain.
C22_NonRetryablePropagates ==
  \A i \in DOMAIN d.outcomes :
    d.outcomes[i] = "fatal"
      => /\ i = Len(d.outcomes)
         /\ pc = "threw"
         /\ d.thrown = ErrorOf("fatal", i - 1)
         /\ Len(d.delays) = i - 1
         /\ now = Sum(d.delays)

\* C22 witness: the first call fails with a rejected error while three
\* retries remain; nothing was slept.
C22_Witness ==
  /\ pc = "threw"
  /\ config.retries = 3
  /\ d.outcomes = <<"fatal">>
  /\ d.delays = <<>>
  /\ now = 0

\* ------------------------------------------------------------ poll claims
Elapsed == now - d.startTime
LastOutcome == d.outcomes[Len(d.outcomes)]

\* C23: a poll that throws counts as not yet satisfied: pollUntil goes on as
\* after a falsy poll, the only error it throws is the timeout, and the
\* first truthy poll ends it with that poll's value.
C23_PollErrorsSwallowed ==
  /\ pc = "threw" => d.thrown = TimeoutError(config)
  /\ \A i \in DOMAIN d.outcomes :
       d.outcomes[i] = "throws"
         => \/ i < Len(d.outcomes)
            \/ pc \in {"sleep", "pollUntil"}
            \/ pc = "threw" /\ Elapsed + config.interval > config.timeout
  /\ \A i \in DOMAIN d.outcomes :
       d.outcomes[i] = "truthy"
         => /\ i = Len(d.outcomes)
            /\ pc = "returned"
            /\ d.result = ErrorOf("truthy", i - 1)
  /\ pc = "returned" => LastOutcome = "truthy"

\* C23 witness: the first poll threw, the second was truthy and returned.
C23_Witness ==
  /\ pc = "returned"
  /\ d.outcomes = <<"throws", "truthy">>
  /\ d.result.attempt = 1

\* C24 as stated: pollUntil fails only with the timeout error carrying its
\* description, and when it fails no more than timeout has elapsed.
C24_TimeoutWithinDeadline ==
  pc = "threw" => /\ d.thrown.kind = "Timeout"
                  /\ d.thrown.message = config.message
                  /\ Elapsed <= config.timeout

\* C24 amended: pollUntil fails only with the timeout error carrying its
\* description; it never starts a sleep that ends after the deadline, and
\* when it fails the time elapsed exceeds timeout by no more than the time
\* its last call of conditionFn took.
C24_NeverSleepsPastDeadline ==
  /\ pc = "threw" => /\ d.thrown.kind = "Timeout"
                      /\ d.thrown.message = config.message
                      /\ Elapsed - d.cost <= config.timeout
                      /\ \A i \in DOMAIN d.outcomes : d.outcomes[i] # "truthy"
  /\ pc = "sleep" => Elapsed + config.interval <= config.timeout
  /\ pc = "pollUntil" => Elapsed <= config.timeout
  /\ Len(d.outcomes) <= (config.timeout \div config.interval) + 1

\* C24 witness: three polls never satisfied, two sleeps, then the timeout.
C24_Witness ==
  /\ pc = "threw"
  /\ Len(d.outcomes) = 3
  /\ \A i \in DOMAIN d.outcomes : d.outcomes[i] = "falsy"
  /\ Elapsed >= 2 * config.interval

\* --------------------------------------------------------- cleanup claims
\* cleanupBackups has returned to productionDeploy.
CleanupReturned ==
  /\ config.backup.enabled
  /\ pc \in {"resolve", "pushA", "pushB", "pushAll", "version", "rename", "result", "done"}
Selected == {d.toDelete[k].id : k \in DOMAIN d.toDelete}

\* C25: whichever deletions fail, retention cleanup issues one delete for
\* every backup it selected and returns; deleted holds exactly the backups
\* whose delete succeeded.  Only its listing can make it fail.
C25_CleanupContinuesPastFailures ==
  /\ CleanupReturned
       => /\ {calls[i].id : i \in RetentionDeletes} = Selected
          /\ Cardinality(RetentionDeletes) = Len(d.toDelete)
          /\ {d.deleted[k].id : k \in DOMAIN d.deleted}
               = {calls[i].id : i \in {j \in RetentionDeletes : calls[j].ok}}
          /\ Len(d.deleted) = Cardinality({j \in RetentionDeletes : calls[j].ok})
  /\ pc = "cleanup_delete" => /\ error = NoError
                               /\ Cardinality(RetentionDeletes) = d.idx - 1
  /\ (pc = "failed" /\ error.stage = "RetentionCleanup") => RetentionDeletes = {}

\* C25 witness: of two selected backups the first delete failed, the second
\* succeeded, and the deployment went on.
C25_Witness ==
  /\ CleanupReturned
  /\ Len(d.toDelete) = 2
  /\ Len(d.deleted) = 1
  /\ d.deleted[1] = d.toDelete[2]
  /\ \E i, j \in RetentionDeletes : i < j /\ ~calls[i].ok /\ calls[j].ok

\* ---- C26
\* The deployments run so far, each of which issued one creation, and the
\* themes the store holds under the backup prefix.
Cycles == Cardinality(CallIdx("create"))
AllCallsSucceeded == \A i \in DOMAIN calls : calls[i].ok
Created == {calls[i].id : i \in CallIdx("create")}
StoredBackups == {t.id : t \in {u \in themes : StartsWith(u.name, prefix)}}
\* Theme ids are issued in the order of creation, so a larger id is a later
\* backup.
MostRecent(ids) == \A x \in Created \ ids : \A y \in ids : x < y

\* C26: starting from a store without backups and with a retention of three,
\* once three or more deployments (five among them) have each run their
\* create-then-retain cycle to the end with every remote call succeeding,
\* the store holds exactly three themes under the backup prefix and they are
\* the three most recently created; before that it holds one per cycle.
C26_RetentionAcrossCycles ==
  (pc = "done" /\ AllCallsSucceeded)
    => /\ Cardinality(StoredBackups) = Min(Cycles, config.backup.retention)
       /\ StoredBackups \subseteq Created
       /\ MostRecent(StoredBackups)

C26_Witness ==
  /\ pc = "done"
  /\ AllCallsSucceeded
  /\ Cycles = 5
  /\ Cardinality(StoredBackups) = 3
  /\ Cardinality(CallIdx("delete")) >= 2

\* ---- C27
\* A target id is configured and the store holds no theme of that id.
Unresolvable ==
  /\ config.secrets.productionThemeId # NoId
  /\ ThemeById(config.secrets.productionThemeId) = NoTheme

\* C27: when the configured target id names no theme of the store, target
\* resolution ends the deployment in failure, with the not-found error once
\* the lookup has returned (with the lookup's own error if the lookup
\* itself fails), and the deployment issues no push and no rename.
C27_MissingTargetFails ==
  /\ [][(pc = "resolve" /\ Unresolvable /\ pc' # pc)
          => /\ pc' = "failed"
             /\ error'.stage = "ResolveTarget"
             /\ error'.message \in {"Production theme not found", "list failed"}
             /\ calls' = calls]_vars
  /\ []((Unresolvable /\ ~config.dryRun)
          => /\ pc \notin {"pushA", "pushB", "pushAll", "version", "rename", "result", "done"}
             /\ CallIdx("push") = {}
             /\ CallIdx("rename") = {})

C27_Witness ==
  /\ Unresolvable
  /\ pc = "failed"
  /\ error.stage = "ResolveTarget"
  /\ error.message = "Production theme not found"
  /\ CallIdx("create") # {}

\* ---- C28
Notifying == pc \in {"slack", "teams"}
NotifyingFailure == pc \in {"catch_slack", "catch_teams"}
FailedDeliveries == {i \in CallIdx("slack") \cup CallIdx("teams") : ~calls[i].ok}

\* C28: no step of a notification, delivered or not, changes what the
\* deployment hands back: on the success path the result stays as built, no
\* error appears and the deployment goes on to return; in the catch block
\* the error stays the one that was caught and the deployment goes on to
\* rethrow it.
C28_NotificationNeverChangesOutcome ==
  /\ [][Notifying => /\ pc' \in {"slack", "teams", "done"}
                      /\ d'.result = d.result
                      /\ error' = NoError]_vars
  /\ [][NotifyingFailure => /\ pc' \in {"catch_slack", "catch_teams", "failed"}
                             /\ error' = error]_vars
  /\ [](pc = "done" => /\ error = NoError
                       /\ ~config.dryRun => d.result.themeId = d.productionTheme.id)
  /\ [](pc = "failed" => error # NoError)

C28_Witness ==
  /\ pc = "done"
  /\ Cardinality(FailedDeliveries) = 2
  /\ d.result.themeId # NoId

\* ---- C29
\* C29: whichever remote call it is, a call whose failure is retryable is
\* attempted again: it hands a retryable error to the deployment only after
\* more than one attempt.
C29_EveryCallRetried ==
  (pc = "threw" /\ d.thrown.kind = "retryable") => Len(d.outcomes) > 1

\* ---- C30
\* The themes the store did not hold when the deployment began: ids from 50
\* on are the ones the store issues during it.
NewThemes == {t \in themes : t.id >= 50}

\* C30: one deployment, which invokes createBackup at most once, issues the
\* theme-creating push at most once and leaves at most one theme in the
\* store that was not there before, whether that push passed, failed before
\* the store created the theme or failed after it.
C30_AtMostOneNewTheme ==
  /\ Cardinality(CallIdx("create")) <= 1
  /\ Cardinality(NewThemes) <= 1
  /\ \A t \in NewThemes : \E i \in CallIdx("create") : calls[i].id = t.id

\* C30 witness: the push failed after the store had created the theme; the
\* deployment failed and the store holds that one new theme.
C30_Witness ==
  /\ pc = "failed"
  /\ error.stage = "Backup"
  /\ Cardinality(NewThemes) = 1
  /\ \E i \in CallIdx("create") : ~calls[i].ok

\* ---- C31
\* C31: in a deployment with backups enabled every push is preceded by a
\* create call that succeeded, and by the time a push is issued createBackup
\* has returned the backup theme.
C31_BackupBeforePush ==
  (config.backup.enabled /\ CallIdx("push") # {})
    => /\ \E i \in CallIdx("create") :
            /\ calls[i].ok
            /\ \A j \in CallIdx("push") : i < j
       /\ d.backupTheme # NoTheme

\* C31 witness: a selective deployment with backups enabled has issued both
\* of its pushes.
C31_Witness ==
  /\ config.backup.enabled
  /\ CallIdx("create") # {}
  /\ Cardinality(CallIdx("push")) = 2

\* ---- C32
\* C32: a dry-run deployment issues no store-changing call, no read of the
\* store and no notification, runs no build, and is either still at its
\* entry or has returned the placeholder result.
C32_DryRunIssuesNothing ==
  config.dryRun
    => /\ calls = <<>>
       /\ reads = {}
       /\ ~d.built
       /\ error = NoError
       /\ \/ pc = "start" /\ d = NoLocals
          \/ pc = "done" /\ d = [NoLocals EXCEPT !.result = DryRunResult]

\* C32 witness: the dry run of a deployment that has a build, backups,
\* versioning and both notifications configured has returned.
C32_Witness ==
  /\ config.dryRun
  /\ config.build.enabled
  /\ config.backup.enabled
  /\ config.versioning.enabled
  /\ config.secrets.slackWebhookUrl # NoUrl
  /\ config.secrets.msTeamsWebhookUrl # NoUrl
  /\ pc = "done"
  /\ d.result = DryRunResult

\* ---- C33
\* The two invocations: the running one and the parked one.
Both == {Parked(pc, d, error), d.parked}
PastCapacity(inv) ==
  inv.pc \in {"backup", "dup_pull", "dup_push", "dup_find", "wait", "cleanup",
              "cleanup_delete", "resolve", "pushAll", "result", "done"}
FreedASlot(inv) ==
  /\ inv.d.capacity.needsCleanup
  /\ \E i \in CallIdx("delete") : calls[i].ok /\ calls[i].id = inv.d.oldest.id

\* C33: capacity enforcement judges each invocation by the count that
\* invocation itself listed and nothing else: an invocation that is past it
\* saw fewer themes than the cap or freed a slot, whatever the other
\* invocation did in between, and the two invocations together issue at
\* most two creations.  (The witness is the race: both saw the same count
\* and both created.)
C33_CapacityJudgedPerInvocation ==
  /\ \A inv \in Both :
       PastCapacity(inv) => (inv.d.capacity.current < maxThemes \/ FreedASlot(inv))
  /\ Cardinality(CallIdx("create")) <= 2
  /\ Cardinality(NewThemes) <= 2

\* C33 witness: both invocations passed capacity enforcement on the same
\* observed count, no theme was deleted, each created its backup, and the
\* store holds two themes more than either of them saw.
C33_Witness ==
  /\ d.capacity.current = d.parked.d.capacity.current
  /\ d.capacity.canCreate
  /\ d.backupTheme # NoTheme
  /\ d.parked.d.backupTheme # NoTheme
  /\ d.backupTheme.id # d.parked.d.backupTheme.id
  /\ CallIdx("delete") = {}
  /\ Cardinality(NewThemes) = 2
  /\ Cardinality(themes) = d.capacity.current + 2
  /\ Cardinality(themes) <= maxThemes

\* ---- C34
\* The creation the failed invocation issued: the last one of the log.
LastCreate == CHOOSE i \in CallIdx("create") : \A j \in CallIdx("create") : j <= i

\* C34: when an invocation fails in a stage after the backup stage, the
\* backup it created is still in the store, no delete call named it and no
\* second creation followed.
C34_BackupSurvivesLaterFailure ==
  (pc = "failed" /\ error.stage # "Backup" /\ CallIdx("create") # {})
    => /\ calls[LastCreate].ok
       /\ \E t \in themes : t.id = calls[LastCreate].id
       /\ \A j \in CallIdx("delete") : j > LastCreate => calls[j].id # calls[LastCreate].id

\* ---- C35
\* A step that issues a delete call, and the theme the call names as the
\* store holds it when the call is issued.
IssuesDelete == Len(calls') = Len(calls) + 1 /\ calls'[Len(calls')].op = "delete"
DeleteTarget == ThemeById(calls'[Len(calls')].id)

\* C35: the target of a delete call is not published at the moment the call
\* is issued.
C35_DeleteTargetNotPublishedAtIssue ==
  [][IssuesDelete => (DeleteTarget # NoTheme => ~IsPublished(DeleteTarget))]_vars

\* ---- C36
\* C36: a deployment that returns a version returns the name the remote
\* theme carries, and that name carries the returned version.
C36_ReturnedVersionIsRemote ==
  (pc = "done" /\ ~config.dryRun /\ d.result.version # NoVersion)
    => /\ ThemeById(d.result.themeId) # NoTheme
       /\ ThemeById(d.result.themeId).name = d.result.themeName
       /\ extractVersion(ThemeById(d.result.themeId).name).version = d.result.version

\* ---- C37
\* C37: the theme createBackup returned is the one this invocation's
\* creation call produced, a theme the store did not hold before.
C37_ReturnedBackupIsNew ==
  d.backupTheme # NoTheme
    => /\ d.backupTheme \in NewThemes
       /\ \E i \in CallIdx("create") : calls[i].ok /\ calls[i].id = d.backupTheme.id

\* ---- C38
NoBackupCreated == \A i \in CallIdx("create") : ~calls[i].ok
SucceededDeletes == {i \in CallIdx("delete") : calls[i].ok}

\* C38 as claimed: an invocation that failed without creating a backup has
\* deleted nothing.
C38_NoEvictionWithoutBackup ==
  (pc = "failed" /\ NoBackupCreated) => SucceededDeletes = {}

\* C38 as the code has it: an invocation that failed without creating a
\* backup has deleted at most one theme, the one capacity enforcement chose
\* as the oldest prefix-named theme of a store it saw at the cap; the
\* eviction is not undone.
C38_AtMostTheCapacityEviction ==
  (pc = "failed" /\ NoBackupCreated)
    => /\ Cardinality(SucceededDeletes) <= 1
       /\ \A i \in SucceededDeletes :
            /\ d.capacity.current >= maxThemes
            /\ calls[i].id = d.oldest.id
            /\ StartsWith(d.oldest.name, prefix)
            /\ ~\E t \in themes : t.id = d.oldest.id

\* C38 witness: capacity enforcement deleted the oldest backup of a full
\* store, the creation then failed, and the store is one theme short.
C38_Witness ==
  /\ pc = "failed"
  /\ NoBackupCreated
  /\ CallIdx("create") # {}
  /\ Cardinality(SucceededDeletes) = 1
  /\ NewThemes = {}
  /\ Cardinality(themes) = maxThemes - 1

\* ---- C39
\* What cleanupBackups returned, by id, and the backups its listing held.
Deleted == {d.deleted[k].id : k \in DOMAIN d.deleted}
Remaining == {d.toKeep[k].id : k \in DOMAIN d.toKeep}
ListedBackups == {t.id : t \in {u \in d.listing : isBackup(u)}}

\* C39: when cleanupBackups has returned, deleted and remaining are
\* disjoint, together they are the backups of its listing, and every one
\* of those that the store still holds is in remaining.
C39_DeletedAndRemainingPartition ==
  CleanupReturned
    => /\ Deleted \cap Remaining = {}
       /\ Deleted \cup Remaining = ListedBackups
       /\ \A t \in themes : t.id \in ListedBackups => t.id \in Remaining

\* C40: once renameThemeWithVersion has built the new name, the base name
\* extractVersion reads from it is the base name it reads from the old name,
\* and the tag it reads from it is the returned version, at every one of the
\* successive renames of a theme.
NameBuilt == d.versionResult.name # <<>>

C40_BaseNamePreserved ==
  NameBuilt =>
    /\ extractVersion(d.versionResult.name).baseName
         = extractVersion(d.versionResult.oldName).baseName
    /\ extractVersion(d.versionResult.name).version = d.versionResult.version

====
